---- MODULE Spec2Model ----
(***************************************************************************)
(* rushd: the instance Registry (store.py), the tmux Process Controller    *)
(* (tmux.py), the Activity Detector (logs.py) and the Orchestrator         *)
(* (manager.py), run by several independent OS processes that share one    *)
(* instances.json file, one lock file and one tmux session.                *)
(*                                                                         *)
(* Two specifications over the same variables:                             *)
(*   SpecStore  Registry operations at the grain of flock / _load_raw /    *)
(*              the truncating open / json.dump / unlock;                  *)
(*   Spec       Orchestrator operations, one step per Registry call, per   *)
(*              tmux command and per log read.                             *)
(*                                                                         *)
(* Encodings.  A string is a sequence of character codes >= 1.  Python's   *)
(* None for a name is the sequence <<0>> (0 is no character), None for a   *)
(* datetime is -1.  The instances dict is a sequence of records in dict    *)
(* (insertion) order with pairwise distinct ids.                           *)
(***************************************************************************)
EXTENDS Integers, Sequences, FiniteSets, TLC

VARIABLES
  store,      \* instances.json: the records, in dict order
  fileTrunc,  \* instances.json is open for writing and still empty
  lock,       \* instances.lock: per process, the lock it holds: none, sh, ex
  tmux,       \* the managed session: the live window indices, per window its
              \* name and pane id, the window currently selected
  logs,       \* per working dir, the entries of the latest session log
  now,        \* wall clock, seconds
  proc,       \* per process: the running operation, its position, its locals
  ghost,      \* history: the Registry as the committed operations define it
  torn,       \* history: some _load_raw read the file while it was truncated
  stable,     \* history: the statuses a clean refresh pass left, while nothing
              \* has changed since; NoSnap otherwise
  nops,       \* operations begun so far
  nticks,     \* clock advances so far
  fileKind,   \* instances.json as _load_raw finds it: valid, missing, ...
  pane,       \* the content of the pane that wait_for_idle watches
  wait,       \* the wait_for_idle call: its arguments, locals and position
  store_dir,  \* the notification directory: per filename, the file
  nproc,      \* per process: the NotificationStore operation it is in
  nhist,      \* history: the notifications saved, the deliveries reported
  primary,    \* the primary instance as the chat bridge finds it: whether it
              \* runs, the lines of its session log
  bot,        \* RushdDiscordBot: seen_entries, _clearing
  mon,        \* the monitor_primary task: its position, its locals
  clr,        \* the _handle_clear_command task: its position
  bhist       \* history: the entries dispatched and delivered, the length of
              \* the log when the seen set was initialised

\* the variables of the components studied on their own
loadVars == <<fileKind>>
waitVars == <<pane, wait>>
notifVars == <<store_dir, nproc, nhist>>
bridgeVars == <<primary, bot, mon, clr, bhist>>
others == <<loadVars, waitVars, notifVars, bridgeVars>>

vars == <<store, fileTrunc, lock, tmux, logs, now, proc, ghost, torn, stable,
          nops, nticks, others>>

----------------------------------------------------------------------------
(* Bounds *)

NumProcs == 2
MaxOps == 2
MaxSeqOps == 2
MaxStoreOps == 3
MaxTicks == 1
NumDirs == 1
NumWindows == 2
MaxLog == 1
MaxRecs == 3

Procs == 1..NumProcs
Dirs == 1..NumDirs
\* window index 0 is the placeholder window of the session
WinIdx == 1..NumWindows

(* Program constants *)
IdleThreshold == 5

NoName == <<0>>
NoTime == -1

\* uuid4()[:8]: every value of the short-id space can come out of a draw
IdSpace == {<<1, 1>>, <<1, 2>>}
\* --name values: None, "", "a", "A"
Names == {NoName, <<>>, <<1>>, <<3>>}
\* identifiers handed to find: an id, and "a": a prefix of ids and a name
Identifiers == {<<1, 1>>, <<1>>}

Statuses == {"starting", "running", "thinking", "tool_use", "idle", "stopped", "error"}
ActivityStatuses == {"thinking", "tool_use", "running", "idle", "unknown"}

----------------------------------------------------------------------------
(* models.py *)

\* full_id is a number: a uuid4 draw gives one that no record in use carries;
\* tmux_pane_id is a number, 0 for the default "" and n for "%n"; the fields
\* with a default take it
InstanceMetadata(id, full, name, status, dir, window, created) ==
  [id |-> id, full_id |-> full, name |-> name, status |-> status,
   working_dir |-> dir, tmux_window |-> window, tmux_pane_id |-> 0,
   created_at |-> created, last_activity |-> NoTime,
   display_mode |-> "activity", auto_approve |-> TRUE]

NoInst == InstanceMetadata(<<>>, 0, NoName, "none", 0, 0, NoTime)

\* Python truthiness of an Optional[str]
Truthy(name) == name # NoName /\ name # <<>>

----------------------------------------------------------------------------
(* tmux.py: the session *)

\* a window as list-windows shows it
Window(name, pane_id) == [name |-> name, pane_id |-> pane_id]
NoWindow == Window(<<>>, 0)

\* the session with its placeholder window (index 0) alone, selected
Session ==
  [windows |-> {}, selected |-> 0, win |-> [w \in WinIdx |-> NoWindow]]

\* the session after "new-window -n name" (no -d): the window takes the free
\* index w, its pane the id pane_id, and becomes the selected window
new_window(t, w, name, pane_id) ==
  [t EXCEPT !.windows = @ \cup {w}, !.selected = w,
            !.win = [@ EXCEPT ![w] = Window(name, pane_id)]]

\* the session after "select-window -t target": a live target becomes the
\* selected window, a dead one leaves the session as it is (exit 1)
select_window(t, target) ==
  IF target \in t.windows THEN [t EXCEPT !.selected = target] ELSE t

\* the windows tmux can select when window w closes: the one selected if it
\* is another, else any that is left (the last one used), the placeholder
\* included
Successors(t, w) ==
  IF t.selected # w THEN {t.selected} ELSE (t.windows \ {w}) \cup {0}

\* the session after window w has closed (kill-window, or its command
\* exited) and tmux has selected next
kill_window(t, w, next) ==
  IF w \in t.windows
  THEN [t EXCEPT !.windows = @ \ {w}, !.selected = next,
                 !.win = [@ EXCEPT ![w] = NoWindow]]
  ELSE t

----------------------------------------------------------------------------
(* store.py: the operations on a loaded StoreModel.instances *)

IdsOf(s) == {s[i].id : i \in DOMAIN s}
HasId(s, id) == id \in IdsOf(s)
IndexOf(s, id) == CHOOSE i \in DOMAIN s : s[i].id = id
Get(s, id) == IF HasId(s, id) THEN s[IndexOf(s, id)] ELSE NoInst

\* mutant: the loop returns after the first record
NameTaken_FirstOnly(s, name) ==
  s # <<>> /\ Truthy(s[1].name) /\ s[1].name = name

\* the loop of add: some stored record has a truthy name equal to this one
NameTaken(s, name) ==
  \E i \in DOMAIN s : Truthy(s[i].name) /\ s[i].name = name

\* store.instances[instance.id] = instance
Put(s, rec) ==
  IF HasId(s, rec.id) THEN [s EXCEPT ![IndexOf(s, rec.id)] = rec]
  ELSE Append(s, rec)

\* mutant: the record is rebuilt from the updates alone, so that every field
\* they do not name falls back to its default
Merge_UpdatesOnly(rec, upd) ==
  [f \in DOMAIN rec |->
     IF f \in DOMAIN upd THEN upd[f]
     ELSE IF f \in {"id", "full_id", "working_dir", "tmux_window"} THEN rec[f]
     ELSE InstanceMetadata(rec.id, rec.full_id, NoName, "starting", 0, 0, rec.created_at)[f]]

\* updated_data = instance.model_dump(); updated_data.update(updates)
Merge(rec, upd) ==
  [f \in DOMAIN rec |-> IF f \in DOMAIN upd THEN upd[f] ELSE rec[f]]

\* mutant: an update of an absent id writes the fields as a new record
UpdateS_Upsert(s, id, upd) ==
  IF HasId(s, id) THEN [s EXCEPT ![IndexOf(s, id)] = Merge(s[IndexOf(s, id)], upd)]
  ELSE Append(s, Merge([NoInst EXCEPT !.id = id], upd))

UpdateS(s, id, upd) ==
  IF HasId(s, id) THEN [s EXCEPT ![IndexOf(s, id)] = Merge(s[IndexOf(s, id)], upd)]
  ELSE s

RemoveS(s, id) ==
  IF HasId(s, id)
  THEN LET k == IndexOf(s, id)
       IN SubSeq(s, 1, k - 1) \o SubSeq(s, k + 1, Len(s))
  ELSE s

RECURSIVE Filter(_, _)
Filter(s, inclStopped) ==
  IF s = <<>> THEN <<>>
  ELSE IF inclStopped \/ Head(s).status # "stopped"
       THEN <<Head(s)>> \o Filter(Tail(s), inclStopped)
       ELSE Filter(Tail(s), inclStopped)

RECURSIVE InsertSorted(_, _)

\* mutant: the sort is descending (reverse=True)
InsertSorted_Descending(sorted, r) ==
  IF sorted = <<>> THEN <<r>>
  ELSE IF Head(sorted).created_at >= r.created_at
       THEN <<Head(sorted)>> \o InsertSorted(Tail(sorted), r)
       ELSE <<r>> \o sorted

\* sorted(..., key=created_at) is stable: insert after the last element
\* whose key is not greater
InsertSorted(sorted, r) ==
  IF sorted = <<>> THEN <<r>>
  ELSE IF Head(sorted).created_at <= r.created_at
       THEN <<Head(sorted)>> \o InsertSorted(Tail(sorted), r)
       ELSE <<r>> \o sorted

RECURSIVE SortByCreated(_)
SortByCreated(s) ==
  IF s = <<>> THEN <<>>
  ELSE InsertSorted(SortByCreated(SubSeq(s, 1, Len(s) - 1)), s[Len(s)])

ListAll(s, inclStopped) == SortByCreated(Filter(s, inclStopped))

IsPrefix(a, b) == Len(a) <= Len(b) /\ SubSeq(b, 1, Len(a)) = a
\* str.lower(): character 3 is "A", the upper case of character 1, "a"
LowerChar(c) == IF c = 3 THEN 1 ELSE c
Lower(a) == [i \in DOMAIN a |-> LowerChar(a[i])]
Contains(a, b) ==
  \E k \in 0..(Len(b) - Len(a)) : SubSeq(b, k + 1, k + Len(a)) = a

\* the first record, in dict order, of the loop whose test holds at hits
FirstWhere(s, hits) ==
  IF hits # {}
  THEN s[CHOOSE i \in hits : \A j \in hits : i <= j]
  ELSE NoInst

\* mutant: the exact-name loop runs before the id-prefix loop
find_NameBeforePrefix(s, identifier) ==
  LET ByPrefix == {i \in DOMAIN s : IsPrefix(identifier, s[i].id)}
      ByName == {i \in DOMAIN s : Truthy(s[i].name) /\ s[i].name = identifier}
      BySub == {i \in DOMAIN s : Truthy(s[i].name)
                   /\ Contains(Lower(identifier), Lower(s[i].name))}
  IN IF HasId(s, identifier) THEN Get(s, identifier)
     ELSE IF ByName # {} THEN FirstWhere(s, ByName)
     ELSE IF ByPrefix # {} THEN FirstWhere(s, ByPrefix)
     ELSE FirstWhere(s, BySub)

find_by_name_or_id(s, identifier) ==
  LET ByPrefix == {i \in DOMAIN s : IsPrefix(identifier, s[i].id)}
      ByName == {i \in DOMAIN s : Truthy(s[i].name) /\ s[i].name = identifier}
      BySub == {i \in DOMAIN s : Truthy(s[i].name)
                   /\ Contains(Lower(identifier), Lower(s[i].name))}
  IN IF HasId(s, identifier) THEN Get(s, identifier)
     ELSE IF ByPrefix # {} THEN FirstWhere(s, ByPrefix)
     ELSE IF ByName # {} THEN FirstWhere(s, ByName)
     ELSE FirstWhere(s, BySub)

\* the outcome of each writing operation run alone on instances s
StoreAdd(s, rec) ==
  IF Truthy(rec.name) /\ NameTaken(s, rec.name)
  THEN [ok |-> FALSE, s |-> s]
  ELSE [ok |-> TRUE, s |-> Put(s, rec)]

StoreUpdate(s, id, upd) == [ok |-> HasId(s, id), s |-> UpdateS(s, id, upd)]
StoreRemove(s, id) == [ok |-> HasId(s, id), s |-> RemoveS(s, id)]
StoreClear(s) == [ok |-> TRUE, s |-> <<>>]

----------------------------------------------------------------------------
(* Processes *)

EmptyUpd == [f \in {} |-> 0]

\* no ActivityState yet
NoActivity == [status |-> "none", tool_name |-> NoName, seconds_since_activity |-> 0]

StatusesOf(s) == [i \in DOMAIN s |-> <<s[i].id, s[i].status>>]
NoSnap == << <<>> >>

IdleProc ==
  [op |-> "none", pc |-> "idle", inst |-> NoInst, id |-> <<>>, upd |-> EmptyUpd,
   loaded |-> <<>>, res |-> "none", insts |-> <<>>, i |-> 0, force |-> FALSE,
   incl |-> FALSE, we |-> FALSE, found |-> NoInst, act |-> "none",
   snap |-> NoSnap, clean |-> TRUE, cmds |-> <<>>, gone |-> {}, count |-> 0,
   activity |-> NoActivity, fix |-> FALSE, wins |-> <<>>]

\* the caller once the operation has returned res, or raised it
Returned(op, res) == [IdleProc EXCEPT !.op = op, !.res = res]

\* str(uuid.uuid4()): a full id that no record on disk or in a process carries
UuidsInUse ==
  {store[i].full_id : i \in DOMAIN store}
    \cup {proc[q].inst.full_id : q \in Procs}
    \cup {proc[q].found.full_id : q \in Procs}
    \cup UNION {{proc[q].insts[i].full_id : i \in DOMAIN proc[q].insts} : q \in Procs}
FreshUuid == CHOOSE n \in 1..(Cardinality(UuidsInUse) + 1) : n \notin UuidsInUse

\* new-window gives the pane an id that no pane of the server has had: one
\* that no live window and no record on disk or in a process carries
PanesInUse ==
  {tmux.win[w].pane_id : w \in WinIdx}
    \cup {store[i].tmux_pane_id : i \in DOMAIN store}
    \cup {proc[q].inst.tmux_pane_id : q \in Procs}
    \cup {proc[q].found.tmux_pane_id : q \in Procs}
    \cup UNION {{proc[q].insts[i].tmux_pane_id : i \in DOMAIN proc[q].insts} : q \in Procs}
FreshPane == CHOOSE n \in 1..(Cardinality(PanesInUse) + 1) : n \notin PanesInUse

Set(p, r) == proc' = [proc EXCEPT ![p] = r]
At(p, pc) == proc[p].pc = pc
Goto(p, pc) == Set(p, [proc[p] EXCEPT !.pc = pc])

\* no hash yet (None)
NoHash == -1

\* no call of wait_for_idle yet; captured is the history of the captures
NoWait ==
  [pc |-> "idle", timeout |-> 0, poll_interval |-> 0, stable_count |-> 0,
   start |-> 0, last_hash |-> NoHash, stable |-> 0, res |-> "none",
   captured |-> <<>>]

\* the content of a file that open(path, "w") has just truncated
Truncated == [id |-> 0]

NoNotification == [id |-> -1]

IdleNProc ==
  [op |-> "none", pc |-> "idle", notification |-> NoNotification, path |-> <<>>,
   data |-> NoNotification, ino |-> 0, res |-> "none", files |-> {},
   cutoff |-> 0, count |-> 0]

\* an empty notification directory, nobody using it
InitNotifVars ==
  /\ store_dir = [f \in {} |-> 0]
  /\ nproc = [p \in Procs |-> IdleNProc]
  /\ nhist = [saved |-> {}, marked |-> {}, unlinked |-> {}, inos |-> 0, ids |-> 0]

\* the monitor task: entries is the list get_activity returned, i the place
\* of the for loop in it
IdleMon == [pc |-> "not_started", entries |-> <<>>, i |-> 0]

\* no chat bridge
InitBridgeVars ==
  /\ primary = [running |-> FALSE, log |-> <<>>]
  /\ bot = [seen_entries |-> {}, clearing |-> FALSE]
  /\ mon = IdleMon
  /\ clr = [pc |-> "idle", clears |-> 0]
  /\ bhist = [dispatched |-> <<>>, delivered |-> {}, init_len |-> 0]

\* the components studied on their own, at rest
InitOthers ==
  /\ fileKind = "valid"
  /\ pane = 0
  /\ wait = NoWait
  /\ InitNotifVars
  /\ InitBridgeVars

----------------------------------------------------------------------------
(* store.py at the grain of the lock: SpecStore *)

\* mutant: flock never waits
CanLock_NoExclusion(p, exclusive) == TRUE

\* mutant: a writer waits for other writers only, as if readers took no lock
CanLock_ReadersUnlocked(p, exclusive) ==
  IF exclusive THEN \A q \in Procs \ {p} : lock[q] # "ex"
  ELSE TRUE

\* fcntl.flock(fd, LOCK_EX | LOCK_SH) returns once the request is compatible
\* with the locks the other processes hold on the lock file
CanLock(p, exclusive) ==
  IF exclusive THEN \A q \in Procs \ {p} : lock[q] = "none"
  ELSE \A q \in Procs \ {p} : lock[q] # "ex"

\* _load_raw: a missing or unparseable (here: truncated) file is an empty store
LoadRaw == IF fileTrunc THEN <<>> ELSE store

UpdShapes ==
  {[status |-> "stopped"], [status |-> "running", last_activity |-> now],
   [last_activity |-> now]}

StUnchangedEnv == UNCHANGED <<tmux, logs, now, stable, nticks, others>>

\* a process calls store.add(instance)
StAdd(p, rec) ==
  /\ At(p, "idle") /\ nops < MaxStoreOps
  /\ Set(p, [IdleProc EXCEPT !.op = "add", !.pc = "lock_ex", !.inst = rec])
  /\ nops' = nops + 1
  /\ UNCHANGED <<store, fileTrunc, lock, ghost, torn>> /\ StUnchangedEnv

StUpdate(p, id, upd) ==
  /\ At(p, "idle") /\ nops < MaxStoreOps
  /\ Set(p, [IdleProc EXCEPT !.op = "update", !.pc = "lock_ex", !.id = id, !.upd = upd])
  /\ nops' = nops + 1
  /\ UNCHANGED <<store, fileTrunc, lock, ghost, torn>> /\ StUnchangedEnv

StRemove(p, id) ==
  /\ At(p, "idle") /\ nops < MaxStoreOps
  /\ Set(p, [IdleProc EXCEPT !.op = "remove", !.pc = "lock_ex", !.id = id])
  /\ nops' = nops + 1
  /\ UNCHANGED <<store, fileTrunc, lock, ghost, torn>> /\ StUnchangedEnv

StClear(p) ==
  /\ At(p, "idle") /\ nops < MaxStoreOps
  /\ Set(p, [IdleProc EXCEPT !.op = "clear_all", !.pc = "lock_ex"])
  /\ nops' = nops + 1
  /\ UNCHANGED <<store, fileTrunc, lock, ghost, torn>> /\ StUnchangedEnv

StLoad(p) ==
  /\ At(p, "idle") /\ nops < MaxStoreOps
  /\ Set(p, [IdleProc EXCEPT !.op = "load", !.pc = "lock_sh"])
  /\ nops' = nops + 1
  /\ UNCHANGED <<store, fileTrunc, lock, ghost, torn>> /\ StUnchangedEnv

\* _file_lock: open the lock file, flock
Flock(p) ==
  /\ At(p, "lock_ex") \/ At(p, "lock_sh")
  /\ CanLock(p, At(p, "lock_ex"))
  /\ lock' = [lock EXCEPT ![p] = IF At(p, "lock_ex") THEN "ex" ELSE "sh"]
  /\ Goto(p, CASE proc[p].op = "add" -> "add_check"
               [] proc[p].op = "update" -> "upd_body"
               [] proc[p].op = "remove" -> "rem_body"
               [] proc[p].op = "clear_all" -> "clr_body"
               [] OTHER -> "read_body")
  /\ UNCHANGED <<store, fileTrunc, ghost, torn, nops>> /\ StUnchangedEnv

\* add, lines 83-89: the uniqueness check on a fresh load
AddCheck(p) ==
  /\ At(p, "add_check")
  /\ IF Truthy(proc[p].inst.name)
     THEN /\ torn' = (torn \/ fileTrunc)
          /\ IF NameTaken(LoadRaw, proc[p].inst.name)
             THEN Set(p, [proc[p] EXCEPT !.pc = "unlock", !.res = "AlreadyExists"])
             ELSE Goto(p, "add_put")
     ELSE /\ Goto(p, "add_put")
          /\ UNCHANGED torn
  /\ UNCHANGED <<store, fileTrunc, lock, ghost, nops>> /\ StUnchangedEnv

\* add, lines 90-91: second load, store.instances[instance.id] = instance
AddPut(p) ==
  /\ At(p, "add_put")
  /\ torn' = (torn \/ fileTrunc)
  /\ Set(p, [proc[p] EXCEPT !.pc = "save_open", !.loaded = Put(LoadRaw, proc[p].inst),
                            !.res = "ok"])
  /\ UNCHANGED <<store, fileTrunc, lock, ghost, nops>> /\ StUnchangedEnv

UpdateBody(p) ==
  /\ At(p, "upd_body")
  /\ torn' = (torn \/ fileTrunc)
  /\ IF HasId(LoadRaw, proc[p].id)
     THEN Set(p, [proc[p] EXCEPT !.pc = "save_open", !.res = "ok",
                                 !.loaded = UpdateS(LoadRaw, proc[p].id, proc[p].upd),
                                 !.found = Get(UpdateS(LoadRaw, proc[p].id, proc[p].upd),
                                               proc[p].id)])
     ELSE Set(p, [proc[p] EXCEPT !.pc = "unlock", !.res = "None"])
  /\ UNCHANGED <<store, fileTrunc, lock, ghost, nops>> /\ StUnchangedEnv

RemoveBody(p) ==
  /\ At(p, "rem_body")
  /\ torn' = (torn \/ fileTrunc)
  /\ IF HasId(LoadRaw, proc[p].id)
     THEN Set(p, [proc[p] EXCEPT !.pc = "save_open", !.res = "True",
                                 !.loaded = RemoveS(LoadRaw, proc[p].id)])
     ELSE Set(p, [proc[p] EXCEPT !.pc = "unlock", !.res = "False"])
  /\ UNCHANGED <<store, fileTrunc, lock, ghost, nops>> /\ StUnchangedEnv

ClearBody(p) ==
  /\ At(p, "clr_body")
  /\ torn' = (torn \/ fileTrunc)
  /\ Set(p, [proc[p] EXCEPT !.pc = "save_open", !.res = "ok", !.loaded = <<>>])
  /\ UNCHANGED <<store, fileTrunc, lock, ghost, nops>> /\ StUnchangedEnv

\* _save_raw, line 56: open(store_path, "w") truncates the file
SaveOpen(p) ==
  /\ At(p, "save_open")
  /\ fileTrunc' = TRUE
  /\ Goto(p, "save_dump")
  /\ UNCHANGED <<store, lock, ghost, torn, nops>> /\ StUnchangedEnv

\* what the operation of process p does to the Registry when run alone
Committed(p, s) ==
  CASE proc[p].op = "add" -> StoreAdd(s, proc[p].inst).s
    [] proc[p].op = "update" -> StoreUpdate(s, proc[p].id, proc[p].upd).s
    [] proc[p].op = "remove" -> StoreRemove(s, proc[p].id).s
    [] proc[p].op = "clear_all" -> StoreClear(s).s
    [] OTHER -> s

\* _save_raw, line 57: json.dump and close
SaveDump(p) ==
  /\ At(p, "save_dump")
  /\ store' = proc[p].loaded
  /\ fileTrunc' = FALSE
  /\ ghost' = Committed(p, ghost)
  /\ Goto(p, "unlock")
  /\ UNCHANGED <<lock, torn, nops>> /\ StUnchangedEnv

\* load: return self._load_raw().instances
LoadBody(p) ==
  /\ At(p, "read_body")
  /\ torn' = (torn \/ fileTrunc)
  /\ Set(p, [proc[p] EXCEPT !.pc = "unlock", !.loaded = LoadRaw, !.res = "ok"])
  /\ UNCHANGED <<store, fileTrunc, lock, ghost, nops>> /\ StUnchangedEnv

\* mutant: the lock is not released when the operation raises
Unlock_KeptOnRaise(p) ==
  /\ At(p, "unlock")
  /\ lock' = [lock EXCEPT ![p] = IF proc[p].res = "AlreadyExists" THEN @ ELSE "none"]
  /\ Set(p, IdleProc)
  /\ UNCHANGED <<store, fileTrunc, ghost, torn, nops>> /\ StUnchangedEnv

\* _file_lock, finally: LOCK_UN and close; the operation returns or raises
Unlock(p) ==
  /\ At(p, "unlock")
  /\ lock' = [lock EXCEPT ![p] = "none"]
  /\ Set(p, IdleProc)
  /\ UNCHANGED <<store, fileTrunc, ghost, torn, nops>> /\ StUnchangedEnv

\* a fresh installation: no instances.json, no window but the placeholder
InitStore ==
  /\ store = <<>>
  /\ fileTrunc = FALSE
  /\ lock = [p \in Procs |-> "none"]
  /\ tmux = Session
  /\ logs = [d \in Dirs |-> <<>>]
  /\ now = 0
  /\ proc = [p \in Procs |-> IdleProc]
  /\ ghost = <<>>
  /\ torn = FALSE
  /\ stable = NoSnap
  /\ nops = 0
  /\ nticks = 0
  /\ InitOthers

NextStore ==
  \/ \E p \in Procs, id \in IdSpace, name \in Names :
       StAdd(p, InstanceMetadata(id, FreshUuid, name, "starting", 1, 1, now))
  \/ \E p \in Procs, id \in IdSpace, upd \in UpdShapes : StUpdate(p, id, upd)
  \/ \E p \in Procs, id \in IdSpace : StRemove(p, id)
  \/ \E p \in Procs : StClear(p)
  \/ \E p \in Procs : StLoad(p)
  \/ \E p \in Procs : Flock(p)
  \/ \E p \in Procs : AddCheck(p)
  \/ \E p \in Procs : AddPut(p)
  \/ \E p \in Procs : UpdateBody(p)
  \/ \E p \in Procs : RemoveBody(p)
  \/ \E p \in Procs : ClearBody(p)
  \/ \E p \in Procs : SaveOpen(p)
  \/ \E p \in Procs : SaveDump(p)
  \/ \E p \in Procs : LoadBody(p)
  \/ \E p \in Procs : Unlock(p)

SpecStore == InitStore /\ [][NextStore]_vars

----------------------------------------------------------------------------
(* tmux.py *)

\* window_exists / kill_window / send-keys: the command exits 0 iff the
\* target designates a live window of the session
window_exists(target) == target \in tmux.windows

\* _run_tmux: the command issued and whether it exited 0
Cmd(name, target) == [cmd |-> name, ok |-> window_exists(target)]

----------------------------------------------------------------------------
(* logs.py *)

\* a parsed line of the conversation log; thinking, tool_name and tool_result
\* are strings, or NoName for None
LogEntry(ts, thinking, tool_name, tool_result) ==
  [ts |-> ts, thinking |-> thinking, tool_name |-> tool_name,
   tool_result |-> tool_result]

\* a line that read_entries drops: blank, not JSON, or of type summary or
\* file-history-snapshot
SkippedLine == [ts |-> NoTime, skipped |-> TRUE]

\* a line of type summary or file-history-snapshot, for which _parse_entry
\* returns None
HousekeepingLine == [ts |-> NoTime, skipped |-> TRUE, type |-> "summary"]

\* a line that is JSON but not what _parse_entry takes it for: not an object
\* ("[]", "3", "null"), or a user line whose message is not an object;
\* data.get or message.get raises AttributeError, which read_entries does not
\* catch
UnexpectedLine == [ts |-> NoTime, raises |-> "AttributeError"]

\* the entries the agent can append at time t: one with a thinking text, one
\* with a tool name, one with a tool result, one with none of them
LogEntries(t) ==
  {LogEntry(t, <<1>>, NoName, NoName), LogEntry(t, NoName, <<1>>, NoName),
   LogEntry(t, NoName, NoName, <<1>>), LogEntry(t, NoName, NoName, NoName)}

\* lines[-last_n:]
LastLines(log, last_n) ==
  SubSeq(log, IF Len(log) > last_n THEN Len(log) - last_n + 1 ELSE 1, Len(log))

\* read_entries: the exception that escapes it, if any, else the lines of
\* lines[-last_n:] that parse to an entry, in their order
read_entries(log, last_n) ==
  LET lines == LastLines(log, last_n)
  IN IF \E i \in DOMAIN lines : "raises" \in DOMAIN lines[i]
     THEN [raised |-> "AttributeError", entries |-> <<>>]
     ELSE [raised |-> "none",
           entries |-> SelectSeq(lines, LAMBDA e : "skipped" \notin DOMAIN e)]

DetectLastN == 5

ActivityState(status, tool_name, seconds_since_activity) ==
  [status |-> status, tool_name |-> tool_name,
   seconds_since_activity |-> seconds_since_activity]

\* mutant: the tool name is looked at before the thinking text
detect_ToolBeforeThinking(log, t) ==
  LET read == read_entries(log, DetectLastN)
      entries == read.entries
      latest == entries[Len(entries)]
      seconds_ago == IF latest.ts = NoTime THEN 0 ELSE t - latest.ts
  IN IF read.raised # "none" THEN ActivityState(read.raised, NoName, 0)
     ELSE IF entries = <<>> THEN ActivityState("unknown", NoName, 0)
     ELSE IF seconds_ago >= IdleThreshold
     THEN ActivityState("idle", NoName, seconds_ago)
     ELSE IF Truthy(latest.tool_name)
     THEN ActivityState("tool_use", latest.tool_name, seconds_ago)
     ELSE IF Truthy(latest.thinking)
     THEN ActivityState("thinking", NoName, seconds_ago)
     ELSE IF latest.tool_result # NoName
     THEN ActivityState("tool_use", NoName, seconds_ago)
     ELSE ActivityState("running", NoName, seconds_ago)

\* detect_activity_state at time t; a timestamp that does not parse (NoTime)
\* gives seconds_ago = 0.0; an exception of read_entries goes through (it is
\* returned in the place of the status)
detect_activity_state(log, t) ==
  LET read == read_entries(log, DetectLastN)
      entries == read.entries
      latest == entries[Len(entries)]
      seconds_ago == IF latest.ts = NoTime THEN 0 ELSE t - latest.ts
  IN IF read.raised # "none" THEN ActivityState(read.raised, NoName, 0)
     ELSE IF entries = <<>> THEN ActivityState("unknown", NoName, 0)
     ELSE IF seconds_ago >= IdleThreshold
     THEN ActivityState("idle", NoName, seconds_ago)
     ELSE IF Truthy(latest.thinking)
     THEN ActivityState("thinking", NoName, seconds_ago)
     ELSE IF Truthy(latest.tool_name)
     THEN ActivityState("tool_use", latest.tool_name, seconds_ago)
     ELSE IF latest.tool_result # NoName
     THEN ActivityState("tool_use", NoName, seconds_ago)
     ELSE ActivityState("running", NoName, seconds_ago)

----------------------------------------------------------------------------
(* manager.py, one step per Registry call, tmux command and log read *)

\* mutant: an unknown activity is stored as idle
status_map_UnknownIdle(act) ==
  CASE act = "thinking" -> "thinking"
    [] act = "tool_use" -> "tool_use"
    [] act = "idle" -> "idle"
    [] act = "running" -> "running"
    [] OTHER -> "idle"

\* status_map.get(activity.status, InstanceStatus.RUNNING)
status_map(act) ==
  CASE act = "thinking" -> "thinking"
    [] act = "tool_use" -> "tool_use"
    [] act = "idle" -> "idle"
    [] act = "running" -> "running"
    [] act = "unknown" -> "running"
    [] OTHER -> "running"

\* process p takes a step that changes the Registry or the session while
\* other operations are under way
SetM(p, r) ==
  proc' = [q \in Procs |->
             IF q = p THEN r
             ELSE IF proc[q].pc = "idle" THEN proc[q]
             ELSE [proc[q] EXCEPT !.clean = FALSE]]

MarkAll ==
  proc' = [q \in Procs |->
             IF proc[q].pc = "idle" THEN proc[q]
             ELSE [proc[q] EXCEPT !.clean = FALSE]]

UnchangedStoreLevel == UNCHANGED <<fileTrunc, lock, ghost, torn, others>>

\* start_instance, lines 79-107: draw the id, create the window (tmux picks a
\* free index), build the record
StartInstance(p, name, dir, id, w, auto_approve) ==
  /\ At(p, "idle")
  /\ w \notin tmux.windows
  /\ tmux' = new_window(tmux, w, IF Truthy(name) THEN name ELSE id, FreshPane)
  /\ SetM(p, [IdleProc EXCEPT !.op = "start", !.pc = "start_add",
               !.inst = [InstanceMetadata(id, FreshUuid, name, "starting", dir, w, now)
                           EXCEPT !.tmux_pane_id = FreshPane,
                                  !.auto_approve = auto_approve]])
  /\ stable' = NoSnap
  /\ nops' = nops + 1
  /\ UNCHANGED <<store, logs, now, nticks>> /\ UnchangedStoreLevel

\* mutant: the exit code of new-window is not looked at, and the record is
\* built from the empty output (window index "0")
StartCreateFails_ExitCodeIgnored(p) ==
  /\ At(p, "idle")
  /\ SetM(p, [IdleProc EXCEPT !.op = "start", !.pc = "start_add",
               !.inst = InstanceMetadata(<<1, 2>>, FreshUuid, NoName, "starting", 1, 0, now)])
  /\ stable' = NoSnap
  /\ nops' = nops + 1
  /\ UNCHANGED <<store, tmux, logs, now, nticks>> /\ UnchangedStoreLevel

\* create_window, lines 54-56: new-window exits nonzero, RuntimeError
StartCreateFails(p) ==
  /\ At(p, "idle")
  /\ Set(p, Returned("start", "RuntimeError"))
  /\ nops' = nops + 1
  /\ UNCHANGED <<store, tmux, logs, now, stable, nticks>> /\ UnchangedStoreLevel

\* start_instance, line 109: self.store.add(instance)
StartAdd(p) ==
  /\ At(p, "start_add")
  /\ LET r == StoreAdd(store, proc[p].inst)
     IN /\ store' = r.s
        /\ IF r.ok THEN SetM(p, [proc[p] EXCEPT !.pc = "start_probe"])
           ELSE Set(p, Returned("start", "ValueError"))
        /\ stable' = IF r.ok THEN NoSnap ELSE stable
  /\ UNCHANGED <<tmux, logs, now, nops, nticks>> /\ UnchangedStoreLevel

\* _update_instance_status, line 118
StartProbe(p) ==
  /\ At(p, "start_probe")
  /\ Set(p, [proc[p] EXCEPT !.pc = "start_update",
                            !.we = window_exists(proc[p].inst.tmux_window)])
  /\ tmux' = select_window(tmux, proc[p].inst.tmux_window)
  /\ UNCHANGED <<store, logs, now, stable, nops, nticks>> /\ UnchangedStoreLevel

\* mutant: the probe's answer is ignored and running is stored
StartUpdate_ProbeIgnored(p) ==
  /\ At(p, "start_update")
  /\ store' = StoreUpdate(store, proc[p].inst.id,
                [status |-> "running", last_activity |-> now]).s
  /\ SetM(p, [Returned("start", "instance") EXCEPT !.inst = proc[p].inst])
  /\ stable' = NoSnap
  /\ UNCHANGED <<tmux, logs, now, nops, nticks>> /\ UnchangedStoreLevel

\* _update_instance_status, lines 119-127
StartUpdate(p) ==
  /\ At(p, "start_update")
  /\ store' = StoreUpdate(store, proc[p].inst.id,
                IF proc[p].we THEN [status |-> "running", last_activity |-> now]
                ELSE [status |-> "stopped"]).s
  /\ SetM(p, [Returned("start", "instance") EXCEPT !.inst = proc[p].inst])
  /\ stable' = NoSnap
  /\ UNCHANGED <<tmux, logs, now, nops, nticks>> /\ UnchangedStoreLevel

\* mutant: stop_all counts a stop only when its kill succeeded
AfterStop_KillCounted(p) ==
  IF proc[p].op \in {"stop_all", "cleanup"}
  THEN [proc[p] EXCEPT !.pc = "sa_next", !.i = @ + 1, !.found = NoInst,
                       !.cmds = <<>>,
                       !.count = IF proc[p].cmds[Len(proc[p].cmds)].ok
                                 THEN @ + 1 ELSE @]
  ELSE Returned("stop", "True")

\* where a stop that has ended leaves its caller
AfterStop(p) ==
  IF proc[p].op \in {"stop_all", "cleanup"}
  THEN [proc[p] EXCEPT !.pc = "sa_next", !.i = @ + 1, !.found = NoInst,
                       !.cmds = <<>>, !.count = @ + 1]
  ELSE Returned("stop", "True")

\* mutant: the test of force is inverted
StopEntry_Inverted(force) == IF force THEN "stop_int" ELSE "stop_kill"

\* where stop goes once the identifier is resolved
StopEntry(force) == IF force THEN "stop_kill" ELSE "stop_int"

\* mutant: the result of find is not tested, the window of "no record" is
\* interrupted and killed
StopInstance_NoneNotTested(p, identifier, force) ==
  /\ At(p, "idle")
  /\ Set(p, [IdleProc EXCEPT !.op = "stop", !.pc = StopEntry(force),
              !.found = find_by_name_or_id(store, identifier), !.force = force])
  /\ nops' = nops + 1
  /\ UNCHANGED <<store, tmux, logs, now, stable, nticks>> /\ UnchangedStoreLevel

\* stop_instance, lines 140-142
StopInstance(p, identifier, force) ==
  /\ At(p, "idle")
  /\ LET found == find_by_name_or_id(store, identifier)
     IN IF found = NoInst THEN Set(p, Returned("stop", "False"))
        ELSE Set(p, [IdleProc EXCEPT !.op = "stop", !.pc = StopEntry(force),
                      !.found = found, !.force = force])
  /\ nops' = nops + 1
  /\ UNCHANGED <<store, tmux, logs, now, stable, nticks>> /\ UnchangedStoreLevel

\* stop_instance, lines 144-149: send_interrupt, sleep
StopInterrupt(p) ==
  /\ At(p, "stop_int")
  /\ Set(p, [proc[p] EXCEPT !.pc = "stop_kill",
                            !.cmds = Append(@, Cmd("C-c", proc[p].found.tmux_window))])
  /\ UNCHANGED <<store, tmux, logs, now, stable, nops, nticks>> /\ UnchangedStoreLevel

\* stop_instance, line 152: kill_window
StopKill(p) ==
  /\ At(p, "stop_kill")
  /\ \E next \in Successors(tmux, proc[p].found.tmux_window) :
       tmux' = kill_window(tmux, proc[p].found.tmux_window, next)
  /\ SetM(p, [proc[p] EXCEPT !.pc = "stop_update",
                             !.cmds = Append(@, Cmd("kill", proc[p].found.tmux_window))])
  /\ stable' = NoSnap
  /\ UNCHANGED <<store, logs, now, nops, nticks>> /\ UnchangedStoreLevel

\* mutant: stop reports what kill_window returned
StopUpdate_KillReported(p) ==
  /\ At(p, "stop_update")
  /\ store' = StoreUpdate(store, proc[p].found.id, [status |-> "stopped"]).s
  /\ SetM(p, IF proc[p].cmds[Len(proc[p].cmds)].ok THEN AfterStop(p)
             ELSE IF proc[p].op \in {"stop_all", "cleanup"}
                  THEN [proc[p] EXCEPT !.pc = "sa_next", !.i = @ + 1,
                                       !.found = NoInst, !.cmds = <<>>]
                  ELSE Returned("stop", "False"))
  /\ stable' = NoSnap
  /\ UNCHANGED <<tmux, logs, now, nops, nticks>> /\ UnchangedStoreLevel

\* stop_instance, lines 155-160
StopUpdate(p) ==
  /\ At(p, "stop_update")
  /\ store' = StoreUpdate(store, proc[p].found.id, [status |-> "stopped"]).s
  /\ SetM(p, AfterStop(p))
  /\ stable' = NoSnap
  /\ UNCHANGED <<tmux, logs, now, nops, nticks>> /\ UnchangedStoreLevel

\* stop_all, line 164
StopAll(p, force) ==
  /\ At(p, "idle")
  /\ Set(p, [IdleProc EXCEPT !.op = "stop_all", !.pc = "sa_next", !.i = 1,
              !.insts = ListAll(store, FALSE), !.force = force])
  /\ nops' = nops + 1
  /\ UNCHANGED <<store, tmux, logs, now, stable, nticks>> /\ UnchangedStoreLevel

\* stop_all, lines 166-167: the next instance, and the find of its stop
StopAllNext(p) ==
  /\ At(p, "sa_next")
  /\ IF proc[p].i > Len(proc[p].insts)
     THEN IF proc[p].op = "cleanup" THEN Goto(p, "cl_session")
          ELSE Set(p, [Returned("stop_all", "count") EXCEPT !.count = proc[p].count])
     ELSE LET found == find_by_name_or_id(store, proc[p].insts[proc[p].i].id)
          IN IF found = NoInst THEN Set(p, [proc[p] EXCEPT !.i = @ + 1])
             ELSE Set(p, [proc[p] EXCEPT !.pc = StopEntry(proc[p].force),
                                         !.found = found])
  /\ UNCHANGED <<store, tmux, logs, now, stable, nops, nticks>> /\ UnchangedStoreLevel

\* cleanup, line 250: self.stop_all(force=force)
Cleanup(p, force) ==
  /\ At(p, "idle")
  /\ Set(p, [IdleProc EXCEPT !.op = "cleanup", !.pc = "sa_next", !.i = 1,
              !.insts = ListAll(store, FALSE), !.force = force])
  /\ nops' = nops + 1
  /\ UNCHANGED <<store, tmux, logs, now, stable, nticks>> /\ UnchangedStoreLevel

\* mutant: cleanup goes on to the clear without killing the session
CleanupSession_Skipped(p) ==
  /\ At(p, "cl_session")
  /\ Set(p, [proc[p] EXCEPT !.pc = "cl_clear"])
  /\ UNCHANGED <<store, tmux, logs, now, stable, nops, nticks>> /\ UnchangedStoreLevel

\* cleanup, line 251: cleanup_session, tmux kill-session ends every window of
\* the managed session
CleanupSession(p) ==
  /\ At(p, "cl_session")
  /\ tmux' = Session
  /\ SetM(p, [proc[p] EXCEPT !.pc = "cl_clear"])
  /\ stable' = NoSnap
  /\ UNCHANGED <<store, logs, now, nops, nticks>> /\ UnchangedStoreLevel

\* cleanup, line 252: self.store.clear_all()
CleanupClear(p) ==
  /\ At(p, "cl_clear")
  /\ store' = StoreClear(store).s
  /\ SetM(p, [Returned("cleanup", "None") EXCEPT !.count = proc[p].count])
  /\ stable' = NoSnap
  /\ UNCHANGED <<tmux, logs, now, nops, nticks>> /\ UnchangedStoreLevel

\* list_instances, line 173
ListInstances(p, incl) ==
  /\ At(p, "idle")
  /\ Set(p, [IdleProc EXCEPT !.op = "list", !.pc = "list_probe", !.i = 1,
              !.insts = ListAll(store, incl), !.incl = incl])
  /\ nops' = nops + 1
  /\ UNCHANGED <<store, tmux, logs, now, stable, nticks>> /\ UnchangedStoreLevel

\* list_instances, lines 176-178
ListProbe(p) ==
  /\ At(p, "list_probe")
  /\ proc[p].i <= Len(proc[p].insts)
  /\ LET instance == proc[p].insts[proc[p].i]
     IN IF instance.status # "stopped" /\ ~window_exists(instance.tmux_window)
        THEN Set(p, [proc[p] EXCEPT !.pc = "list_update",
                                    !.gone = @ \cup {instance.id}])
        ELSE Set(p, [proc[p] EXCEPT !.i = @ + 1])
  /\ tmux' = IF proc[p].insts[proc[p].i].status # "stopped"
             THEN select_window(tmux, proc[p].insts[proc[p].i].tmux_window)
             ELSE tmux
  /\ UNCHANGED <<store, logs, now, stable, nops, nticks>> /\ UnchangedStoreLevel

\* mutant: the reconciliation of list also forgets the pane of the dead window
ListUpdate_ClearsPane(p) ==
  /\ At(p, "list_update")
  /\ store' = StoreUpdate(store, proc[p].insts[proc[p].i].id,
                [status |-> "stopped", tmux_pane_id |-> 0]).s
  /\ SetM(p, [proc[p] EXCEPT !.pc = "list_probe", !.i = @ + 1])
  /\ stable' = NoSnap
  /\ UNCHANGED <<tmux, logs, now, nops, nticks>> /\ UnchangedStoreLevel

\* list_instances, line 179
ListUpdate(p) ==
  /\ At(p, "list_update")
  /\ store' = StoreUpdate(store, proc[p].insts[proc[p].i].id, [status |-> "stopped"]).s
  /\ SetM(p, [proc[p] EXCEPT !.pc = "list_probe", !.i = @ + 1])
  /\ stable' = NoSnap
  /\ UNCHANGED <<tmux, logs, now, nops, nticks>> /\ UnchangedStoreLevel

\* list_instances, line 181
ListReturn(p) ==
  /\ At(p, "list_probe")
  /\ proc[p].i > Len(proc[p].insts)
  /\ IF proc[p].op = "verify_panes"
     THEN Set(p, [proc[p] EXCEPT !.pc = "vp_windows", !.i = 1, !.gone = {},
                                 !.insts = ListAll(store, proc[p].incl)])
     ELSE Set(p, [Returned("list", "instances") EXCEPT
                   !.loaded = ListAll(store, proc[p].incl)])
  /\ UNCHANGED <<store, tmux, logs, now, stable, nops, nticks>> /\ UnchangedStoreLevel

\* refresh_statuses, line 276
RefreshStatuses(p) ==
  /\ At(p, "idle")
  /\ Set(p, [IdleProc EXCEPT !.op = "refresh", !.pc = "rf_probe", !.i = 1,
              !.insts = ListAll(store, TRUE), !.snap = stable])
  /\ stable' = NoSnap
  /\ nops' = nops + 1
  /\ UNCHANGED <<store, tmux, logs, now, nticks>> /\ UnchangedStoreLevel

\* mutant: the two tests flattened into one, so that a stopped record with no
\* window takes the activity branch
RefreshProbe_Flattened(p) ==
  /\ At(p, "rf_probe")
  /\ proc[p].i <= Len(proc[p].insts)
  /\ LET instance == proc[p].insts[proc[p].i]
     IN IF ~window_exists(instance.tmux_window) /\ instance.status # "stopped"
        THEN Set(p, [proc[p] EXCEPT !.pc = "rf_stop", !.we = FALSE])
        ELSE Set(p, [proc[p] EXCEPT !.pc = "rf_find", !.we = TRUE])
  /\ tmux' = select_window(tmux, proc[p].insts[proc[p].i].tmux_window)
  /\ UNCHANGED <<store, logs, now, stable, nops, nticks>> /\ UnchangedStoreLevel

\* refresh_statuses, lines 278-282
RefreshProbe(p) ==
  /\ At(p, "rf_probe")
  /\ proc[p].i <= Len(proc[p].insts)
  /\ LET instance == proc[p].insts[proc[p].i]
     IN IF ~window_exists(instance.tmux_window)
        THEN IF instance.status # "stopped"
             THEN Set(p, [proc[p] EXCEPT !.pc = "rf_stop", !.we = FALSE])
             ELSE Set(p, [proc[p] EXCEPT !.i = @ + 1])
        ELSE Set(p, [proc[p] EXCEPT !.pc = "rf_find", !.we = TRUE])
  /\ tmux' = select_window(tmux, proc[p].insts[proc[p].i].tmux_window)
  /\ UNCHANGED <<store, logs, now, stable, nops, nticks>> /\ UnchangedStoreLevel

\* refresh_statuses, line 283
RefreshStop(p) ==
  /\ At(p, "rf_stop")
  /\ store' = StoreUpdate(store, proc[p].insts[proc[p].i].id, [status |-> "stopped"]).s
  /\ SetM(p, [proc[p] EXCEPT !.pc = "rf_probe", !.i = @ + 1, !.we = FALSE])
  /\ stable' = NoSnap
  /\ UNCHANGED <<tmux, logs, now, nops, nticks>> /\ UnchangedStoreLevel

\* get_activity_state, lines 264-266
RefreshFind(p) ==
  /\ At(p, "rf_find")
  /\ LET found == find_by_name_or_id(store, proc[p].insts[proc[p].i].id)
     IN IF found = NoInst
        THEN Set(p, [proc[p] EXCEPT !.pc = "rf_update", !.act = "unknown"])
        ELSE Set(p, [proc[p] EXCEPT !.pc = "rf_probe2", !.found = found])
  /\ UNCHANGED <<store, tmux, logs, now, stable, nops, nticks>> /\ UnchangedStoreLevel

\* get_activity_state, lines 268-269
RefreshProbe2(p) ==
  /\ At(p, "rf_probe2")
  /\ IF window_exists(proc[p].found.tmux_window)
     THEN Goto(p, "rf_detect")
     ELSE Set(p, [proc[p] EXCEPT !.pc = "rf_update", !.act = "unknown"])
  /\ tmux' = select_window(tmux, proc[p].found.tmux_window)
  /\ UNCHANGED <<store, logs, now, stable, nops, nticks>> /\ UnchangedStoreLevel

\* get_activity_state, lines 271-272; an exception of the log read ends
\* refresh_statuses
RefreshDetect(p) ==
  /\ At(p, "rf_detect")
  /\ LET state == detect_activity_state(logs[proc[p].found.working_dir], now)
     IN IF state.status \in ActivityStatuses
        THEN Set(p, [proc[p] EXCEPT !.pc = "rf_update", !.act = state.status])
        ELSE Set(p, Returned("refresh", state.status))
  /\ UNCHANGED <<store, tmux, logs, now, stable, nops, nticks>> /\ UnchangedStoreLevel

\* mutant: the refresh writes the status alone
RefreshUpdate_NoStamp(p) ==
  /\ At(p, "rf_update")
  /\ store' = StoreUpdate(store, proc[p].insts[proc[p].i].id,
                [status |-> status_map(proc[p].act)]).s
  /\ SetM(p, [proc[p] EXCEPT !.pc = "rf_probe", !.i = @ + 1, !.found = NoInst,
                             !.act = "none", !.we = FALSE])
  /\ stable' = NoSnap
  /\ UNCHANGED <<tmux, logs, now, nops, nticks>> /\ UnchangedStoreLevel

\* refresh_statuses, lines 287-299
RefreshUpdate(p) ==
  /\ At(p, "rf_update")
  /\ store' = StoreUpdate(store, proc[p].insts[proc[p].i].id,
                [status |-> status_map(proc[p].act), last_activity |-> now]).s
  /\ SetM(p, [proc[p] EXCEPT !.pc = "rf_probe", !.i = @ + 1, !.found = NoInst,
                             !.act = "none", !.we = FALSE])
  /\ stable' = NoSnap
  /\ UNCHANGED <<tmux, logs, now, nops, nticks>> /\ UnchangedStoreLevel

\* refresh_statuses returns
RefreshReturn(p) ==
  /\ At(p, "rf_probe")
  /\ proc[p].i > Len(proc[p].insts)
  /\ stable' = IF proc[p].clean THEN StatusesOf(store) ELSE NoSnap
  /\ Set(p, IdleProc)
  /\ UNCHANGED <<store, tmux, logs, now, nops, nticks>> /\ UnchangedStoreLevel

\* send_message / send_key, the find: lines 209-211, 220-222
SendBegin(p, op, identifier) ==
  /\ At(p, "idle")
  /\ LET found == find_by_name_or_id(store, identifier)
     IN IF found = NoInst THEN Set(p, Returned(op, "False"))
        ELSE Set(p, [IdleProc EXCEPT !.op = op, !.pc = "send_text", !.found = found])
  /\ nops' = nops + 1
  /\ UNCHANGED <<store, tmux, logs, now, stable, nticks>> /\ UnchangedStoreLevel

SendMessage(p, identifier) == SendBegin(p, "send_message", identifier)
SendKey(p, identifier) == SendBegin(p, "send_key", identifier)

\* what the caller of send_message / send_key holds once it has returned res:
\* the commands it issued are kept for the history
Sent(p, res, cmds) == [Returned(proc[p].op, res) EXCEPT !.cmds = cmds]

\* mutant: send_keys does not look at its enter flag
SendText_EnterAlways(p) ==
  /\ At(p, "send_text")
  /\ LET c == Cmd("text", proc[p].found.tmux_window)
         cmds == Append(proc[p].cmds, c)
     IN IF ~c.ok THEN Set(p, Sent(p, "False", cmds))
        ELSE Set(p, [proc[p] EXCEPT !.pc = "send_enter", !.cmds = cmds])
  /\ UNCHANGED <<store, tmux, logs, now, stable, nops, nticks>> /\ UnchangedStoreLevel

\* send_keys, lines 123-125 and 132: the text; enter is true for send_message
\* (manager.py line 213) and false for send_key (line 223)
SendText(p) ==
  /\ At(p, "send_text")
  /\ LET c == Cmd("text", proc[p].found.tmux_window)
         cmds == Append(proc[p].cmds, c)
     IN IF ~c.ok THEN Set(p, Sent(p, "False", cmds))
        ELSE IF proc[p].op = "send_message"
        THEN Set(p, [proc[p] EXCEPT !.pc = "send_enter", !.cmds = cmds])
        ELSE Set(p, Sent(p, "True", cmds))
  /\ UNCHANGED <<store, tmux, logs, now, stable, nops, nticks>> /\ UnchangedStoreLevel

\* mutant: the exit code of the Enter command is not looked at
SendEnter_CodeIgnored(p) ==
  /\ At(p, "send_enter")
  /\ Set(p, [proc[p] EXCEPT !.pc = "send_update",
       !.cmds = Append(@, Cmd("Enter", proc[p].found.tmux_window))])
  /\ UNCHANGED <<store, tmux, logs, now, stable, nops, nticks>> /\ UnchangedStoreLevel

\* send_keys, lines 127-130: the sleep, then Enter
SendEnter(p) ==
  /\ At(p, "send_enter")
  /\ LET c == Cmd("Enter", proc[p].found.tmux_window)
         cmds == Append(proc[p].cmds, c)
     IN IF c.ok THEN Set(p, [proc[p] EXCEPT !.pc = "send_update", !.cmds = cmds])
        ELSE Set(p, Sent(p, "False", cmds))
  /\ UNCHANGED <<store, tmux, logs, now, stable, nops, nticks>> /\ UnchangedStoreLevel

\* send_message, lines 214-216
SendUpdate(p) ==
  /\ At(p, "send_update")
  /\ store' = StoreUpdate(store, proc[p].found.id, [last_activity |-> now]).s
  /\ SetM(p, Sent(p, "True", proc[p].cmds))
  /\ stable' = NoSnap
  /\ UNCHANGED <<tmux, logs, now, nops, nticks>> /\ UnchangedStoreLevel

\* remove_instance, lines 189-190
RemoveInstance(p, identifier) ==
  /\ At(p, "idle")
  /\ LET found == find_by_name_or_id(store, identifier)
     IN IF found = NoInst THEN Set(p, Returned("remove", "False"))
        ELSE Set(p, [IdleProc EXCEPT !.op = "remove", !.pc = "remove", !.found = found])
  /\ nops' = nops + 1
  /\ UNCHANGED <<store, tmux, logs, now, stable, nticks>> /\ UnchangedStoreLevel

\* mutant: remove also kills the window of the record
RemoveStore_KillsWindow(p) ==
  /\ At(p, "remove")
  /\ LET r == StoreRemove(store, proc[p].found.id)
     IN /\ store' = r.s
        /\ SetM(p, Returned("remove", IF r.ok THEN "True" ELSE "False"))
  /\ \E next \in Successors(tmux, proc[p].found.tmux_window) :
       tmux' = kill_window(tmux, proc[p].found.tmux_window, next)
  /\ stable' = NoSnap
  /\ UNCHANGED <<logs, now, nops, nticks>> /\ UnchangedStoreLevel

\* remove_instance, line 191
RemoveStore(p) ==
  /\ At(p, "remove")
  /\ LET r == StoreRemove(store, proc[p].found.id)
     IN /\ store' = r.s
        /\ SetM(p, Returned("remove", IF r.ok THEN "True" ELSE "False"))
  /\ stable' = NoSnap
  /\ UNCHANGED <<tmux, logs, now, nops, nticks>> /\ UnchangedStoreLevel

\* attach, lines 240-242
Attach(p, identifier) ==
  /\ At(p, "idle")
  /\ LET found == find_by_name_or_id(store, identifier)
     IN IF found = NoInst THEN Set(p, Returned("attach", "False"))
        ELSE Set(p, [IdleProc EXCEPT !.op = "attach", !.pc = "attach", !.found = found])
  /\ nops' = nops + 1
  /\ UNCHANGED <<store, tmux, logs, now, stable, nticks>> /\ UnchangedStoreLevel

\* attach, lines 245-246: select-window, then the terminal is handed to tmux
\* until the user detaches
AttachSession(p) ==
  /\ At(p, "attach")
  /\ Set(p, Returned("attach", "True"))
  /\ tmux' = select_window(tmux, proc[p].found.tmux_window)
  /\ UNCHANGED <<store, logs, now, stable, nops, nticks>> /\ UnchangedStoreLevel

\* set_display_mode, lines 344-346
SetDisplayMode(p, identifier, mode) ==
  /\ At(p, "idle")
  /\ LET found == find_by_name_or_id(store, identifier)
     IN IF found = NoInst THEN Set(p, Returned("set_display_mode", "False"))
        ELSE Set(p, [IdleProc EXCEPT !.op = "set_display_mode", !.pc = "set_mode",
                      !.found = found, !.upd = [display_mode |-> mode]])
  /\ nops' = nops + 1
  /\ UNCHANGED <<store, tmux, logs, now, stable, nticks>> /\ UnchangedStoreLevel

\* set_display_mode, lines 347-348
SetDisplayUpdate(p) ==
  /\ At(p, "set_mode")
  /\ store' = StoreUpdate(store, proc[p].found.id, proc[p].upd).s
  /\ SetM(p, Returned("set_display_mode", "True"))
  /\ stable' = NoSnap
  /\ UNCHANGED <<tmux, logs, now, nops, nticks>> /\ UnchangedStoreLevel

\* is_primary_running, lines 200-204
IsPrimaryRunning(p, primary_name) ==
  /\ At(p, "idle")
  /\ LET inst == find_by_name_or_id(store, primary_name)
     IN IF inst = NoInst \/ inst.status = "stopped"
        THEN Set(p, Returned("is_primary_running", "False"))
        ELSE Set(p, [IdleProc EXCEPT !.op = "is_primary_running", !.pc = "ipr_probe",
                      !.found = inst])
  /\ nops' = nops + 1
  /\ UNCHANGED <<store, tmux, logs, now, stable, nticks>> /\ UnchangedStoreLevel

\* is_primary_running, line 205
IsPrimaryProbe(p) ==
  /\ At(p, "ipr_probe")
  /\ Set(p, [Returned("is_primary_running",
                      IF window_exists(proc[p].found.tmux_window) THEN "True" ELSE "False")
               EXCEPT !.found = proc[p].found])
  /\ tmux' = select_window(tmux, proc[p].found.tmux_window)
  /\ UNCHANGED <<store, logs, now, stable, nops, nticks>> /\ UnchangedStoreLevel

\* get_activity_state called by a collaborator, lines 264-266
GetActivityState(p, identifier) ==
  /\ At(p, "idle")
  /\ LET found == find_by_name_or_id(store, identifier)
     IN IF found = NoInst
        THEN Set(p, [Returned("get_activity_state", "ActivityState")
                       EXCEPT !.activity = ActivityState("unknown", NoName, 0)])
        ELSE Set(p, [IdleProc EXCEPT !.op = "get_activity_state", !.pc = "gas_probe",
                      !.found = found])
  /\ nops' = nops + 1
  /\ UNCHANGED <<store, tmux, logs, now, stable, nticks>> /\ UnchangedStoreLevel

\* get_activity_state, lines 268-272
GetActivityProbe(p) ==
  /\ At(p, "gas_probe")
  /\ Set(p, [Returned("get_activity_state", "ActivityState")
               EXCEPT !.found = proc[p].found,
                      !.activity =
                        IF window_exists(proc[p].found.tmux_window)
                        THEN detect_activity_state(logs[proc[p].found.working_dir], now)
                        ELSE ActivityState("unknown", NoName, 0)])
  /\ tmux' = select_window(tmux, proc[p].found.tmux_window)
  /\ UNCHANGED <<store, logs, now, stable, nops, nticks>> /\ UnchangedStoreLevel

(* cli.py, verify_panes *)

\* window_by_name: per window name, the pane of the window of that name that
\* list-windows shows last (the one of highest index)
window_by_name(t) ==
  [n \in {t.win[w].name : w \in t.windows} |->
     t.win[CHOOSE w \in t.windows :
             /\ t.win[w].name = n
             /\ \A v \in t.windows : t.win[v].name = n => v <= w].pane_id]

\* verify_panes, line 521: list_instances(include_stopped=False)
VerifyPanes(p, fix) ==
  /\ At(p, "idle")
  /\ Set(p, [IdleProc EXCEPT !.op = "verify_panes", !.pc = "list_probe", !.i = 1,
              !.insts = ListAll(store, FALSE), !.incl = FALSE, !.fix = fix])
  /\ nops' = nops + 1
  /\ UNCHANGED <<store, tmux, logs, now, stable, nticks>> /\ UnchangedStoreLevel

\* verify_panes, lines 522-527: list_windows
VerifyWindows(p) ==
  /\ At(p, "vp_windows")
  /\ Set(p, [proc[p] EXCEPT !.pc = "vp_next", !.wins = window_by_name(tmux)])
  /\ UNCHANGED <<store, tmux, logs, now, stable, nops, nticks>> /\ UnchangedStoreLevel

\* verify_panes, lines 532-559: the next instance; its pane id is stored anew
\* when it differs from the pane of the window of its name and fix is set
VerifyNext(p) ==
  /\ At(p, "vp_next")
  /\ IF proc[p].i > Len(proc[p].insts)
     THEN /\ Set(p, Returned("verify_panes", "None"))
          /\ UNCHANGED <<store, stable>>
     ELSE LET inst == proc[p].insts[proc[p].i]
              window_name == IF Truthy(inst.name) THEN inst.name ELSE inst.id
          IN IF /\ window_name \in DOMAIN proc[p].wins
                /\ inst.tmux_pane_id # proc[p].wins[window_name]
                /\ proc[p].fix
             THEN /\ store' = StoreUpdate(store, inst.id,
                                [tmux_pane_id |-> proc[p].wins[window_name]]).s
                  /\ SetM(p, [proc[p] EXCEPT !.i = @ + 1, !.count = @ + 1])
                  /\ stable' = NoSnap
             ELSE /\ Set(p, [proc[p] EXCEPT !.i = @ + 1])
                  /\ UNCHANGED <<store, stable>>
  /\ UNCHANGED <<tmux, logs, now, nops, nticks>> /\ UnchangedStoreLevel

(* The environment *)

\* the agent in window w exits and tmux closes the window
WindowDies(w) ==
  /\ w \in tmux.windows
  /\ \E next \in Successors(tmux, w) : tmux' = kill_window(tmux, w, next)
  /\ MarkAll
  /\ stable' = NoSnap
  /\ UNCHANGED <<store, logs, now, nops, nticks>> /\ UnchangedStoreLevel

\* the agent working in dir appends an entry to its conversation log
AppendLog(dir, e) ==
  /\ Len(logs[dir]) < MaxLog
  /\ logs' = [logs EXCEPT ![dir] = Append(@, e)]
  /\ MarkAll
  /\ stable' = NoSnap
  /\ UNCHANGED <<store, tmux, now, nops, nticks>> /\ UnchangedStoreLevel

\* the wall clock advances
Tick(d) ==
  /\ nticks < MaxTicks
  /\ now' = now + d
  /\ nticks' = nticks + 1
  /\ MarkAll
  /\ stable' = NoSnap
  /\ UNCHANGED <<store, tmux, logs, nops>> /\ UnchangedStoreLevel

StartNames == {NoName, <<1>>}
\* auto_approve of the starts: --no-auto-approve, which is not the default a
\* record takes when the field is left out
Approvals == {FALSE}
\* the mode a caller switches an instance to (records start in "activity")
DisplayModes == {"raw"}
TickSteps == {IdleThreshold}

Begin(p) ==
  \/ \E name \in StartNames, dir \in Dirs, id \in IdSpace, w \in WinIdx,
        auto_approve \in Approvals :
       StartInstance(p, name, dir, id, w, auto_approve)
  \/ StartCreateFails(p)
  \/ \E identifier \in Identifiers, force \in BOOLEAN : StopInstance(p, identifier, force)
  \/ \E force \in BOOLEAN : StopAll(p, force)
  \/ \E force \in BOOLEAN : Cleanup(p, force)
  \/ \E incl \in BOOLEAN : ListInstances(p, incl)
  \/ RefreshStatuses(p)
  \/ \E identifier \in Identifiers : SendMessage(p, identifier)
  \/ \E identifier \in Identifiers : SendKey(p, identifier)
  \/ \E identifier \in Identifiers : RemoveInstance(p, identifier)
  \/ \E identifier \in Identifiers : Attach(p, identifier)
  \/ \E identifier \in Identifiers, mode \in DisplayModes :
       SetDisplayMode(p, identifier, mode)
  \/ \E primary_name \in Identifiers : IsPrimaryRunning(p, primary_name)
  \/ \E identifier \in Identifiers : GetActivityState(p, identifier)
  \/ \E fix \in BOOLEAN : VerifyPanes(p, fix)

Step(p) ==
  \/ StartAdd(p) \/ StartProbe(p) \/ StartUpdate(p)
  \/ StopInterrupt(p) \/ StopKill(p) \/ StopUpdate(p) \/ StopAllNext(p)
  \/ ListProbe(p) \/ ListUpdate(p) \/ ListReturn(p)
  \/ RefreshProbe(p) \/ RefreshStop(p) \/ RefreshFind(p) \/ RefreshProbe2(p)
  \/ RefreshDetect(p) \/ RefreshUpdate(p) \/ RefreshReturn(p)
  \/ SendText(p) \/ SendEnter(p) \/ SendUpdate(p)
  \/ RemoveStore(p) \/ AttachSession(p) \/ SetDisplayUpdate(p)
  \/ CleanupSession(p) \/ CleanupClear(p)
  \/ IsPrimaryProbe(p) \/ GetActivityProbe(p)
  \/ VerifyWindows(p) \/ VerifyNext(p)

Env ==
  \/ \E w \in WinIdx : WindowDies(w)
  \/ \E dir \in Dirs : \E e \in LogEntries(now) : AppendLog(dir, e)
  \/ \E d \in TickSteps : Tick(d)

\* the environment while operations race: windows close, the agent thinks
EnvRace ==
  \/ \E w \in WinIdx : WindowDies(w)
  \/ \E dir \in Dirs : AppendLog(dir, LogEntry(now, <<1>>, NoName, NoName))

\* The Registry and the session as earlier operations have left them when the
\* processes under study begin (each is reached from the fresh installation,
\* see SnapshotsReached):
\*   nothing started yet;
\*   start() gave instance 11 in window 1, running;
\*   then stop("11") killed the window and stored stopped;
\*   then start(name "a") drew id 12 and tmux gave it the free index 1 again.
RecA(status) ==
  [InstanceMetadata(<<1, 1>>, 1, NoName, status, 1, 1, 0)
     EXCEPT !.last_activity = 0, !.tmux_pane_id = 1, !.auto_approve = FALSE]
RecB(status) ==
  [InstanceMetadata(<<1, 2>>, 2, <<1>>, status, 1, 1, 0)
     EXCEPT !.last_activity = 0, !.tmux_pane_id = 2, !.auto_approve = FALSE]

Snapshots ==
  {[store |-> <<>>, tmux |-> Session],
   [store |-> <<RecA("running")>>, tmux |-> new_window(Session, 1, <<1, 1>>, 1)],
   [store |-> <<RecA("stopped")>>, tmux |-> Session],
   [store |-> <<RecA("stopped"), RecB("running")>>,
    tmux |-> new_window(Session, 1, <<1>>, 2)]}

Init ==
  /\ \E snapshot \in Snapshots :
       /\ store = snapshot.store
       /\ ghost = snapshot.store
       /\ tmux = snapshot.tmux
  /\ fileTrunc = FALSE
  /\ lock = [p \in Procs |-> "none"]
  /\ logs = [d \in Dirs |-> <<>>]
  /\ now = 0
  /\ proc = [p \in Procs |-> IdleProc]
  /\ torn = FALSE
  /\ stable = NoSnap
  /\ nops = 0
  /\ nticks = 0
  /\ InitOthers

\* several processes, interleaved at every Registry call and tmux command
Next ==
  \/ \E p \in Procs : nops < MaxOps /\ Begin(p)
  \/ \E p \in Procs : Step(p)
  \/ EnvRace

Spec == Init /\ [][Next]_vars

\* one process, its operations one after the other
NextSeq ==
  \/ nops < MaxSeqOps /\ Begin(1)
  \/ Step(1)
  \/ Env

SpecSeq == Init /\ [][NextSeq]_vars

\* every snapshot of Init is reached by one process from a fresh installation
SpecFresh == InitStore /\ [][NextSeq]_vars

SnapshotsReached(snapshot) ==
  store = snapshot.store /\ tmux = snapshot.tmux /\ At(1, "idle")

----------------------------------------------------------------------------
(* store.py, the reading operations on any stored Registry: SpecReg *)

\* ids, names and identifiers that make every rule of find apply: ids that
\* share the prefix "a" and one that does not; names None, "", "a", "A", "aa";
\* identifiers "aa", "a", "A", "b", ""
RegIds == {<<1, 1>>, <<1, 2>>, <<2, 1>>}
RegNames == Names \cup {<<1, 1>>}
RegIdentifiers == {<<1, 1>>, <<1>>, <<3>>, <<2>>, <<>>}
RegTimes == {0, IdleThreshold}

RegUuid(id) == 10 * id[1] + id[2]

RegRecords ==
  {InstanceMetadata(id, RegUuid(id), name, status, 1, 1, created) :
     id \in RegIds, name \in RegNames, status \in {"running", "stopped"},
     created \in RegTimes}

\* the instances dicts of at most MaxRecs records: the keys are distinct, so
\* there are no more records than ids
RegStores ==
  UNION {{s \in [1..n -> RegRecords] :
            \A i, j \in 1..n : s[i].id = s[j].id => i = j} :
         n \in {m \in 0..MaxRecs : m <= Cardinality(RegIds)}}

InitReg ==
  /\ store \in RegStores
  /\ ghost = store
  /\ tmux = Session
  /\ fileTrunc = FALSE
  /\ lock = [p \in Procs |-> "none"]
  /\ logs = [d \in Dirs |-> <<>>]
  /\ now = 0
  /\ proc = [p \in Procs |-> IdleProc]
  /\ torn = FALSE
  /\ stable = NoSnap
  /\ nops = 0
  /\ nticks = 0
  /\ InitOthers

RegUnchanged ==
  UNCHANGED <<store, fileTrunc, lock, tmux, logs, now, ghost, torn, stable, nticks,
              others>>

\* store.list_all(include_stopped)
RegList(p, incl) ==
  /\ proc[p] = IdleProc /\ nops = 0
  /\ Set(p, [Returned("list_all", "instances") EXCEPT
              !.incl = incl, !.loaded = ListAll(store, incl)])
  /\ nops' = nops + 1
  /\ RegUnchanged

\* store.find_by_name_or_id(identifier)
RegFind(p, identifier) ==
  /\ proc[p] = IdleProc /\ nops = 0
  /\ Set(p, [Returned("find", "instance") EXCEPT
              !.id = identifier, !.found = find_by_name_or_id(store, identifier)])
  /\ nops' = nops + 1
  /\ RegUnchanged

NextReg ==
  \/ \E incl \in BOOLEAN : RegList(1, incl)
  \/ \E identifier \in RegIdentifiers : RegFind(1, identifier)

SpecReg == InitReg /\ [][NextReg]_vars

----------------------------------------------------------------------------
(* Claims about the Registry, checked under SpecStore *)

InAddCritical(p) ==
  /\ proc[p].op = "add"
  /\ proc[p].pc \in {"add_check", "add_put", "save_open", "save_dump", "unlock"}

\* C1 as stated: the uniqueness check and the write of an add lie inside one
\* held exclusive lock, and no two stored records have the same non-null name
\* (the empty name "" counted as a name).
C1_NonNullNamesUnique ==
  /\ \A p \in Procs : InAddCritical(p) =>
       lock[p] = "ex" /\ \A q \in Procs \ {p} : lock[q] = "none"
  /\ \A i, j \in DOMAIN store :
       (i # j /\ store[i].name # NoName) => store[i].name # store[j].name

\* C1 amended: the uniqueness check and the write of an add lie inside one held
\* exclusive lock (nobody else holds the lock from the check to the unlock), two
\* adds of the same non-empty name are never both past the check, and no two
\* stored records have the same non-empty name.
C1_AddAtomicNonEmptyNamesUnique ==
  /\ \A p \in Procs : InAddCritical(p) =>
       lock[p] = "ex" /\ \A q \in Procs \ {p} : lock[q] = "none"
  /\ \A p, q \in Procs :
       (p # q /\ proc[p].op = "add" /\ proc[q].op = "add"
        /\ proc[p].res = "ok" /\ proc[q].res = "ok"
        /\ proc[p].inst.name # NoName /\ proc[p].inst.name # <<>>)
       => proc[p].inst.name # proc[q].inst.name
  /\ \A i, j \in DOMAIN store :
       (i # j /\ store[i].name # NoName /\ store[i].name # <<>>)
       => store[i].name # store[j].name

\* two adds of one non-empty name race: one is writing, the other waits
C1_Witness ==
  \E p, q \in Procs :
    /\ p # q /\ proc[p].op = "add" /\ proc[q].op = "add"
    /\ proc[p].inst.name = proc[q].inst.name /\ proc[p].inst.name = <<1>>
    /\ proc[p].inst.id # proc[q].inst.id
    /\ At(p, "save_dump") /\ At(q, "lock_ex")

\* the name of the record process p adds is the name of a record on disk
Collides(p) ==
  \E i \in DOMAIN store : store[i].name = proc[p].inst.name

\* an add that met a collision fails and none of its steps writes the file
FailsUnmodified(p) ==
  /\ At(p, "add_check") => proc'[p].pc = "unlock" /\ proc'[p].res = "AlreadyExists"
  /\ store' = store /\ fileTrunc' = fileTrunc

\* C2 as stated: add of a record whose non-null name equals the name of a
\* stored record fails with AlreadyExists and leaves the persisted store as it
\* was.
C2_NonNullCollisionFails ==
  [][\A p \in Procs :
       (proc'[p] # proc[p] /\ proc[p].op = "add" /\ proc[p].inst.name # NoName
        /\ ((At(p, "add_check") /\ Collides(p)) \/ proc[p].res = "AlreadyExists"))
       => FailsUnmodified(p)]_vars

\* C2 amended: add of a record whose non-empty name equals the name of a
\* stored record fails with AlreadyExists, and no step of the failed add
\* changes the persisted store.
C2_NonEmptyCollisionFails ==
  [][\A p \in Procs :
       (proc'[p] # proc[p] /\ proc[p].op = "add"
        /\ proc[p].inst.name # NoName /\ proc[p].inst.name # <<>>
        /\ ((At(p, "add_check") /\ Collides(p)) \/ proc[p].res = "AlreadyExists"))
       => FailsUnmodified(p)]_vars

\* an add has failed on a name held by a record with another id
C2_Witness ==
  \E p \in Procs :
    /\ proc[p].op = "add" /\ At(p, "unlock") /\ proc[p].res = "AlreadyExists"
    /\ \E i \in DOMAIN store :
         store[i].name = proc[p].inst.name /\ store[i].id # proc[p].inst.id

WritePcs == {"add_check", "add_put", "upd_body", "rem_body", "clr_body",
             "save_open", "save_dump"}

\* C3: every Registry write runs its whole read-modify-write under the
\* exclusive lock and every read under the shared lock; the file always holds
\* what the committed operations give when run one at a time in commit order
\* (no write is lost), and no load ever sees the file half written.
C3_Serializable ==
  /\ \A p \in Procs :
       /\ proc[p].pc \in WritePcs =>
            lock[p] = "ex" /\ \A q \in Procs \ {p} : lock[q] = "none"
       /\ At(p, "read_body") =>
            lock[p] = "sh" /\ \A q \in Procs \ {p} : lock[q] # "ex"
       /\ (At(p, "unlock") /\ proc[p].op = "load") => proc[p].loaded = ghost
  /\ ~torn
  /\ (\A p \in Procs : lock[p] # "ex") => (store = ghost /\ ~fileTrunc)

\* a reader waits for the lock while a writer has the file truncated, after
\* another write was committed
C3_Witness ==
  \E p, q \in Procs :
    /\ At(p, "save_dump") /\ fileTrunc /\ At(q, "lock_sh")
    /\ ghost # <<>> /\ proc[p].loaded # ghost

----------------------------------------------------------------------------
(* Claims about the Orchestrator *)

\* record r of the next state is the record q of this state
SameRecord(q, r) == r.id = q.id /\ r.full_id = q.full_id

\* C4: once the stored status of a record is stopped, no step of any
\* Orchestrator operation, from one process or several, makes it anything
\* but stopped.
C4_StoppedIsTerminal ==
  [][\A i \in DOMAIN store : \A j \in DOMAIN store' :
       (store[i].status = "stopped" /\ SameRecord(store[i], store'[j]))
       => store'[j].status = "stopped"]_vars

\* C5: the stored status that directly follows starting is running or
\* stopped, never thinking, tool_use or idle, also when another process
\* refreshes between start's insert and start's probe.
C5_StartingToRunningOrStopped ==
  [][\A i \in DOMAIN store : \A j \in DOMAIN store' :
       (store[i].status = "starting" /\ SameRecord(store[i], store'[j]))
       => store'[j].status \in {"starting", "running", "stopped"}]_vars

\* the refresh pass of process p has gone through its list
PassDone(p) ==
  proc[p].op = "refresh" /\ At(p, "rf_probe") /\ proc[p].i > Len(proc[p].insts)

\* C6: a record that is stopped when refresh_statuses reads it has every
\* field unchanged when the pass is through, whatever tmux says of its window.
C6_RefreshLeavesStopped ==
  \A p \in Procs : PassDone(p) =>
    \A k \in DOMAIN proc[p].insts :
      proc[p].insts[k].status = "stopped"
      => Get(store, proc[p].insts[k].id) = proc[p].insts[k]

\* the stored status for each state of the Activity Detector
MappedStatus(act) ==
  IF act \in {"running", "unknown"} THEN "running" ELSE act

\* C7: after a refresh pass with no concurrent writer (and windows, log and
\* clock as they were when it began), every record that was not stopped and
\* whose window does not exist is stopped, and every record whose window
\* exists has the status the detector's state maps to.
C7_RefreshSetsStatuses ==
  \A p \in Procs : (PassDone(p) /\ proc[p].clean) =>
    \A k \in DOMAIN proc[p].insts :
      LET r == proc[p].insts[k]
          cur == Get(store, r.id)
      IN /\ (~(r.tmux_window \in tmux.windows) /\ r.status # "stopped")
              => cur.status = "stopped"
         /\ r.tmux_window \in tmux.windows
              => cur.status = MappedStatus(detect_activity_state(logs[r.working_dir], now).status)

\* a pass is through that stopped one record and stored running for another
\* whose log is still empty
C7_Witness ==
  \E p \in Procs :
    /\ PassDone(p) /\ proc[p].clean
    /\ \E k \in DOMAIN proc[p].insts :
         /\ proc[p].insts[k].status = "running"
         /\ proc[p].insts[k].tmux_window \notin tmux.windows
         /\ Get(store, proc[p].insts[k].id).status = "stopped"
    /\ \E k \in DOMAIN proc[p].insts :
         /\ proc[p].insts[k].tmux_window \in tmux.windows
         /\ logs[proc[p].insts[k].working_dir] = <<>>

\* C8: a refresh pass that follows a refresh pass, with no change in between
\* or meanwhile to the windows, the logs, the clock or the Registry, leaves
\* every record with the status the first pass left.
C8_RefreshIdempotent ==
  \A p \in Procs : (PassDone(p) /\ proc[p].clean /\ proc[p].snap # NoSnap) =>
    StatusesOf(store) = proc[p].snap

\* a second pass in a row is through, over a record it keeps thinking
C8_Witness ==
  \E p \in Procs :
    /\ PassDone(p) /\ proc[p].clean /\ proc[p].snap # NoSnap
    /\ \E i \in DOMAIN store : store[i].status = "thinking"

\* process p takes the step
Acts(p) == proc'[p].pc # proc[p].pc \/ proc'[p].i # proc[p].i

\* C9: no step of refresh_statuses or of list adds a record to the Registry or
\* deletes one, also when another process has removed the record the step
\* writes.
C9_ReconciliationKeepsIds ==
  [][\A p \in Procs :
       (proc[p].op \in {"refresh", "list"} /\ Acts(p))
       => IdsOf(store') = IdsOf(store) /\ Len(store') = Len(store)]_vars

\* reconciliation is about to write the status of a record that another
\* process has removed since the pass read it
C9_Witness ==
  \E p \in Procs :
    /\ proc[p].pc \in {"rf_update", "rf_stop", "list_update"}
    /\ proc[p].insts[proc[p].i].id \notin IdsOf(store)

\* C10: a start that draws the short id of a record in the Registry does not
\* replace or alter that record.
C10_IdNeverReused ==
  [][\A i \in DOMAIN store : \A j \in DOMAIN store' :
       store'[j].id = store[i].id => store'[j].full_id = store[i].full_id]_vars

\* C11: a successful start returns the record with status starting and the
\* requested working_dir and persists a record with that id; when start
\* returns, the persisted status (of the record that is in the Registry under
\* that id) is running if the window existed at the probe and stopped
\* otherwise; list writes stopped only for a record whose
\* window it found gone, and its result holds every record stored as running.
C11_StartContract ==
  [][\A p \in Procs :
       /\ \A name \in StartNames, dir \in Dirs, id \in IdSpace, w \in WinIdx,
             auto_approve \in Approvals :
            StartInstance(p, name, dir, id, w, auto_approve)
            => /\ proc'[p].inst.working_dir = dir
               /\ proc'[p].inst.id = id
               /\ proc'[p].inst.status = "starting"
       /\ (At(p, "start_add") /\ proc'[p].pc = "start_probe")
            => Get(store', proc[p].inst.id) = proc[p].inst
       /\ (At(p, "start_update") /\ proc'[p].pc = "idle")
            => /\ proc'[p].res = "instance"
               /\ proc'[p].inst = proc[p].inst
               /\ proc'[p].inst.status = "starting"
               /\ HasId(store, proc[p].inst.id)
                    => Get(store', proc[p].inst.id).status
                         = IF proc[p].we THEN "running" ELSE "stopped"
       /\ (At(p, "list_update") /\ proc'[p].pc = "list_probe")
            => \A i \in DOMAIN store :
                 store'[i].status # store[i].status => store[i].id \in proc[p].gone
       /\ (proc[p].op = "list" /\ At(p, "list_probe") /\ proc'[p].pc = "idle")
            => \A i \in DOMAIN store :
                 store[i].status = "running"
                 => \E k \in DOMAIN proc'[p].loaded : proc'[p].loaded[k] = store[i]
    ]_vars

\* a start has drawn id 12 for an unnamed instance and returned, and the list
\* that followed returned that record as running
C11_Witness ==
  \E p \in Procs :
    /\ At(p, "idle") /\ proc[p].op = "list"
    /\ \E k \in DOMAIN proc[p].loaded :
         /\ proc[p].loaded[k].id = <<1, 2>>
         /\ proc[p].loaded[k].name = NoName
         /\ proc[p].loaded[k].status = "running"
         /\ proc[p].loaded[k].tmux_window \in tmux.windows

\* C12: when new-window exits nonzero (no window is created) create_window
\* raises, start ends at once with that failure, and the Registry holds
\* exactly the records it held before the call.
C12_CreateFailurePropagates ==
  [][\A p \in Procs :
       (/\ \/ StartCreateFails(p)
           \/ \E name \in StartNames, dir \in Dirs, id \in IdSpace, w \in WinIdx,
                 auto_approve \in Approvals :
                StartInstance(p, name, dir, id, w, auto_approve)
        /\ tmux'.windows = tmux.windows)
       => /\ proc'[p].pc = "idle"
          /\ proc'[p].res = "RuntimeError"
          /\ store' = store
    ]_vars

\* a start has failed on window creation while the Registry holds records
C12_Witness ==
  \E p \in Procs :
    /\ At(p, "idle") /\ proc[p].op = "start" /\ proc[p].res = "RuntimeError"
    /\ store # <<>>

\* process p calls, with this identifier, one of the operations that resolve
\* an identifier first
CallsByIdentifier(p, identifier) ==
  \/ \E force \in BOOLEAN : StopInstance(p, identifier, force)
  \/ SendMessage(p, identifier)
  \/ SendKey(p, identifier)
  \/ Attach(p, identifier)
  \/ RemoveInstance(p, identifier)
  \/ \E mode \in DisplayModes : SetDisplayMode(p, identifier, mode)

\* C13: stop, send_message, send_key, attach, remove and set_display_mode on
\* an identifier that resolves to no record return false at once: no tmux
\* command is issued and the Registry and the session are unchanged.
C13_NotFoundReturnsFalse ==
  [][\A p \in Procs : \A identifier \in Identifiers :
       (/\ CallsByIdentifier(p, identifier)
        /\ ~HasId(store, identifier)
        /\ \A i \in DOMAIN store :
             /\ ~IsPrefix(identifier, store[i].id)
             /\ store[i].name # identifier
             /\ ~(Truthy(store[i].name)
                  /\ Contains(Lower(identifier), Lower(store[i].name))))
       => /\ proc'[p].pc = "idle"
          /\ proc'[p].res = "False"
          /\ proc'[p].cmds = <<>>
          /\ store' = store
          /\ tmux' = tmux
    ]_vars

\* a stop has returned false while the Registry holds a record
C13_Witness ==
  \E p \in Procs :
    /\ At(p, "idle") /\ proc[p].op = "stop" /\ proc[p].res = "False"
    /\ store # <<>>

\* the names of the tmux commands an operation has issued, in order
CmdNames(cmds) == [k \in DOMAIN cmds |-> cmds[k].cmd]

\* C14: for a resolved instance, stop without force issues the interrupt and
\* then the kill, stop with force issues the kill alone, and the status
\* stopped is written only after the kill has been issued.
C14_InterruptKillThenStopped ==
  [][\A p \in Procs :
       /\ \A identifier \in Identifiers, force \in BOOLEAN :
            (StopInstance(p, identifier, force) /\ proc'[p].pc # "idle")
            => proc'[p].force = force /\ proc'[p].cmds = <<>>
       /\ (proc[p].op \in {"stop", "stop_all"} /\ Acts(p) /\ store' # store)
            => /\ CmdNames(proc[p].cmds)
                    = IF proc[p].force THEN <<"kill">> ELSE <<"C-c", "kill">>
               /\ \A i \in DOMAIN store :
                    store'[i] # store[i]
                    => /\ store[i].id = proc[p].found.id
                       /\ store'[i] = [store[i] EXCEPT !.status = "stopped"]
       /\ (proc[p].op = "stop" /\ Acts(p) /\ proc'[p].res = "True")
            => CmdNames(proc[p].cmds)
                 = IF proc[p].force THEN <<"kill">> ELSE <<"C-c", "kill">>
    ]_vars

\* one process is about to write stopped after interrupt and kill, another
\* after the kill alone
C14_Witness ==
  \E p, q \in Procs :
    /\ At(p, "stop_update") /\ ~proc[p].force /\ Len(proc[p].cmds) = 2
    /\ At(q, "stop_update") /\ proc[q].force /\ Len(proc[q].cmds) = 1

\* stop without force has had both its interrupt and its kill fail: the
\* window of the resolved instance was gone
StopOnGoneWindow(p) ==
  /\ proc[p].op = "stop" /\ At(p, "stop_update") /\ ~proc[p].force
  /\ Len(proc[p].cmds) = 2 /\ ~proc[p].cmds[1].ok /\ ~proc[p].cmds[2].ok

\* C15: stop(identifier, force=false) on a resolved instance whose window no
\* longer exists returns true and leaves the record stopped; the failed
\* interrupt and the failed kill are not reported.
C15_StopOnGoneWindowSucceeds ==
  [][\A p \in Procs :
       (StopOnGoneWindow(p) /\ Acts(p))
       => /\ proc'[p].pc = "idle"
          /\ proc'[p].res = "True"
          /\ HasId(store, proc[p].found.id)
               => Get(store', proc[p].found.id).status = "stopped"
    ]_vars

\* the stop is about to write, for a record stored as running
C15_Witness ==
  \E p \in Procs :
    /\ StopOnGoneWindow(p)
    /\ HasId(store, proc[p].found.id)
    /\ Get(store, proc[p].found.id).status = "running"

\* the stop that stop_all runs for one instance is about to end
StopAllCounts(p) == proc[p].op = "stop_all" /\ At(p, "stop_update")

\* stop_all has gone through its list and returns
StopAllReturns(p) ==
  proc[p].op = "stop_all" /\ At(p, "sa_next") /\ proc[p].i > Len(proc[p].insts)

\* every instance stop_all listed is stopped and has no live window
AllListedStopped(p) ==
  \A k \in DOMAIN proc[p].insts :
    /\ Get(store, proc[p].insts[k].id).status = "stopped"
    /\ proc[p].insts[k].tmux_window \notin tmux.windows

ListReturns(p) ==
  proc[p].op = "list" /\ At(p, "list_probe") /\ proc[p].i > Len(proc[p].insts)

\* C17: list reconciles before it answers: a record whose window did not
\* exist when list checked it is persisted as stopped, is returned with no
\* other status than stopped, and is absent from the result when
\* include_stopped is false.
C17_ListReconciles ==
  [][\A p \in Procs :
       (ListReturns(p) /\ Acts(p))
       => /\ \A id \in proc[p].gone :
               HasId(store, id) => Get(store, id).status = "stopped"
          /\ \A k \in DOMAIN proc'[p].loaded :
               proc'[p].loaded[k].id \in proc[p].gone
               => /\ proc'[p].loaded[k].status = "stopped"
                  /\ proc[p].incl
    ]_vars

\* list is about to answer after it found the window of a running record gone
C17_Witness ==
  \E p \in Procs :
    /\ ListReturns(p)
    /\ \E k \in DOMAIN proc[p].insts :
         /\ proc[p].insts[k].status = "running"
         /\ proc[p].insts[k].id \in proc[p].gone

----------------------------------------------------------------------------
(* Claims about the reading operations of the Registry, checked under SpecReg *)

\* the stored records list_all is to return
Listed(incl) ==
  {store[i] : i \in {j \in DOMAIN store : incl \/ store[j].status # "stopped"}}

\* C18: list_all(include_stopped) returns exactly the stored records, or
\* exactly those whose status is not stopped, each once, in ascending order
\* of created_at.
C18_ListAllSortedExact ==
  \A p \in Procs : proc[p].op = "list_all" =>
    LET r == proc[p].loaded
    IN /\ {r[k] : k \in DOMAIN r} = Listed(proc[p].incl)
       /\ Len(r) = Cardinality(Listed(proc[p].incl))
       /\ \A k, l \in DOMAIN r : k < l => r[k].created_at <= r[l].created_at

\* list_all(False) has answered for a Registry of three records that are
\* stored out of creation order, one of them stopped
C18_Witness ==
  \E p \in Procs :
    /\ proc[p].op = "list_all" /\ ~proc[p].incl
    /\ Len(store) = 3 /\ Len(proc[p].loaded) = 2
    /\ store[1].created_at > store[3].created_at
    /\ store[2].status = "stopped"

\* r is the first stored record, in iteration order, among those at hits
FirstAt(hits, r) ==
  \E i \in hits : store[i] = r /\ \A j \in hits : i <= j

\* C19: find resolves in a fixed order: the record with exactly that id;
\* else the first record whose id starts with the identifier; else a record
\* whose name equals it; else the first record whose name contains it, case
\* ignored; else nothing.  A record that matches by id prefix wins over
\* another that matches by exact name.
C19_FindOrder ==
  \A p \in Procs : proc[p].op = "find" =>
    LET identifier == proc[p].id
        r == proc[p].found
        ById == {i \in DOMAIN store : store[i].id = identifier}
        ByPrefix == {i \in DOMAIN store :
                       /\ Len(identifier) <= Len(store[i].id)
                       /\ \A k \in DOMAIN identifier : store[i].id[k] = identifier[k]}
        ByName == {i \in DOMAIN store :
                     store[i].name # NoName /\ store[i].name = identifier}
        BySub == {i \in DOMAIN store :
                    /\ store[i].name # NoName
                    /\ \E k \in 0..(Len(store[i].name) - Len(identifier)) :
                         \A m \in DOMAIN identifier :
                           LowerChar(store[i].name[k + m]) = LowerChar(identifier[m])}
    IN /\ ById # {} => \E i \in ById : store[i] = r
       /\ (ById = {} /\ ByPrefix # {}) => FirstAt(ByPrefix, r)
       /\ (ById = {} /\ ByPrefix = {} /\ ByName # {}) => \E i \in ByName : store[i] = r
       /\ (ById = {} /\ ByPrefix = {} /\ ByName = {} /\ BySub # {}) => FirstAt(BySub, r)
       /\ (ById = {} /\ ByPrefix = {} /\ ByName = {} /\ BySub = {}) => r = NoInst
       /\ (ByPrefix # {} /\ ByName # {} /\ ById = {}) => FirstAt(ByPrefix, r)

\* find("a") has answered with the record whose id starts with "a" although
\* a record stored before it is named "a"
C19_Witness ==
  \E p \in Procs :
    /\ proc[p].op = "find" /\ proc[p].id = <<1>>
    /\ Len(store) >= 2
    /\ store[1].name = <<1>> /\ store[1].id = <<2, 1>>
    /\ proc[p].found = store[2]

----------------------------------------------------------------------------
(* Claim about Registry update, checked under SpecStore *)

\* C20: update(id, fields) on an absent id reports not-found (None) and
\* writes nothing; on a present id it changes the named fields of that one
\* record and nothing else, persists the result and returns the updated
\* record.
C20_UpdateFrame ==
  [][\A p \in Procs :
       /\ (At(p, "upd_body") /\ Acts(p) /\ ~(proc[p].id \in IdsOf(store)))
            => /\ proc'[p].pc = "unlock" /\ proc'[p].res = "None"
               /\ proc'[p].found = NoInst
       /\ (At(p, "upd_body") /\ Acts(p) /\ proc[p].id \in IdsOf(store))
            => LET new == proc'[p].loaded
               IN /\ proc'[p].pc = "save_open"
                  /\ Len(new) = Len(store)
                  /\ \A i \in DOMAIN store :
                       IF store[i].id = proc[p].id
                       THEN /\ \A f \in DOMAIN store[i] :
                                 new[i][f] = IF f \in DOMAIN proc[p].upd
                                             THEN proc[p].upd[f] ELSE store[i][f]
                            /\ proc'[p].found = new[i]
                       ELSE new[i] = store[i]
       /\ (proc[p].op = "update" /\ At(p, "save_dump") /\ Acts(p))
            => store' = proc[p].loaded
       /\ (proc[p].op = "update" /\ Acts(p) /\ proc[p].pc # "save_dump")
            => store' = store
    ]_vars

\* an update of one of two stored records has persisted and is about to
\* return the updated record
C20_Witness ==
  \E p \in Procs :
    /\ proc[p].op = "update" /\ At(p, "unlock") /\ proc[p].res = "ok"
    /\ Len(store) = 2
    /\ proc[p].found \in {store[i] : i \in DOMAIN store}
    /\ proc[p].found.status = "stopped"

----------------------------------------------------------------------------
(* C21 *)

\* process p takes the remove of the Registry on the record it resolved
Removes(p) == At(p, "remove") /\ proc'[p].pc = "idle"

\* C21: remove_instance deletes the record stored under the resolved id and
\* no other: the records under the other ids stay, unchanged and in their
\* order, nothing is left under that id, and true is returned.  It issues no
\* tmux command: the windows of the session, that of the removed record
\* included, are the same before and after.  The Registry's remove of an id
\* that is not stored (another process removed it first) returns false and
\* leaves the store as it was.  Resolving the identifier changes neither the
\* store nor the session.
C21_RemoveFrame ==
  [][\A p \in Procs :
       /\ Removes(p) =>
            /\ tmux' = tmux
            /\ proc'[p].cmds = <<>>
            /\ proc'[p].op = "remove"
            /\ store' = SelectSeq(store, LAMBDA r : r.id # proc[p].found.id)
            /\ ~HasId(store', proc[p].found.id)
            /\ proc'[p].res = (IF HasId(store, proc[p].found.id) THEN "True" ELSE "False")
            /\ ~HasId(store, proc[p].found.id) => store' = store
            /\ HasId(store, proc[p].found.id) => Len(store') = Len(store) - 1
       /\ (\E identifier \in Identifiers : RemoveInstance(p, identifier)) =>
            /\ store' = store /\ tmux' = tmux
            /\ proc'[p].pc = "remove" => HasId(store, proc'[p].found.id)
            /\ proc'[p].pc = "idle" => proc'[p].res = "False"
  ]_vars

\* a remove has returned true, the Registry is empty, and the window of the
\* record it removed is still there
C21_Witness ==
  \E p \in Procs :
    /\ proc[p].op = "remove" /\ proc[p].res = "True" /\ At(p, "idle")
    /\ \A q \in Procs \ {p} : proc[q].op = "none"
    /\ store = <<>>
    /\ tmux.windows = {1}

----------------------------------------------------------------------------
(* C22 *)

StoppingPcs == {"sa_next", "stop_int", "stop_kill", "stop_update"}

\* C22: cleanup stops every instance that is not stopped, then tears the
\* managed session down, then clears the Registry, in that order: while it
\* stops instances no record leaves the Registry; the session is torn down
\* only once stop_all has gone through its list, when every record is stopped
\* and every listed window is gone, and that step leaves the Registry alone;
\* the Registry is cleared only after that, when no window is left; cleanup
\* returns only from the clear.  With no other process writing, when cleanup
\* returns the Registry has no record and the session has no window.
C22_CleanupOrder ==
  [][\A p \in Procs :
       (proc'[p].op = "cleanup" /\ Acts(p)) =>
         /\ proc[p].pc \in StoppingPcs =>
              /\ IdsOf(store') = IdsOf(store)
              /\ tmux.windows \ tmux'.windows \subseteq {proc[p].found.tmux_window}
              /\ proc'[p].pc \in StoppingPcs \cup {"cl_session"}
         /\ proc'[p].pc = "cl_session" =>
              /\ At(p, "sa_next") /\ proc[p].i > Len(proc[p].insts)
              /\ proc[p].count = Len(proc[p].insts)
         /\ At(p, "cl_session") =>
              /\ \A i \in DOMAIN store : store[i].status = "stopped"
              /\ \A k \in DOMAIN proc[p].insts :
                   proc[p].insts[k].tmux_window \notin tmux.windows
              /\ store' = store
              /\ tmux'.windows = {}
              /\ proc'[p].pc = "cl_clear"
         /\ At(p, "cl_clear") =>
              /\ tmux.windows = {}
              /\ tmux' = tmux
              /\ store' = <<>>
              /\ proc'[p].pc = "idle"
         /\ proc'[p].pc = "idle" =>
              /\ At(p, "cl_clear")
              /\ store' = <<>> /\ tmux'.windows = {}
    ]_vars

\* cleanup has returned after stopping an instance: no record, no window
C22_Witness ==
  /\ proc[1].op = "cleanup" /\ At(1, "idle") /\ proc[1].res = "None"
  /\ proc[1].count >= 1
  /\ store = <<>> /\ tmux.windows = {}

----------------------------------------------------------------------------
(* store.py, _load_raw on a file that something else has damaged: SpecLoad *)

MaxLoadOps == 3

\* what instances.json can be when an operation opens it:
\*   valid        the dump of a StoreModel, its records being `store`
\*   missing      no such file
\*   unreadable   open() or read() fails with an OSError
\*   not_text     bytes that are not UTF-8
\*   unparseable  text that is not JSON
\*   invalid      JSON that is not a StoreModel, such as {"instances": []}
FileKinds == {"valid", "missing", "unreadable", "not_text", "unparseable", "invalid"}

\* the exceptions of _load_raw that its except clause does not name
LoadErrors == {"UnicodeDecodeError", "ValidationError"}

\* _load_raw: the instances it returns, or the exception it lets through
load_raw(kind, s) ==
  CASE kind = "missing" -> [exc |-> "none", instances |-> <<>>]
    [] kind = "unreadable" -> [exc |-> "none", instances |-> <<>>]
    [] kind = "unparseable" -> [exc |-> "none", instances |-> <<>>]
    [] kind = "not_text" -> [exc |-> "UnicodeDecodeError", instances |-> <<>>]
    [] kind = "invalid" -> [exc |-> "ValidationError", instances |-> <<>>]
    [] OTHER -> [exc |-> "none", instances |-> s]

LdUnchanged ==
  UNCHANGED <<fileTrunc, lock, tmux, logs, now, ghost, torn, stable, nticks,
              waitVars, notifVars, bridgeVars>>

\* _save_raw: the file becomes the dump of s
LdSave(s) == store' = s /\ fileKind' = "valid"

LdKeep == UNCHANGED <<store, fileKind>>

\* store.add(rec)
LdAdd(p, rec) ==
  /\ nops < MaxLoadOps
  /\ LET l == load_raw(fileKind, store)
         r == StoreAdd(l.instances, rec)
     IN IF l.exc # "none"
        THEN Set(p, [Returned("add", l.exc) EXCEPT !.inst = rec]) /\ LdKeep
        ELSE /\ Set(p, [Returned("add", IF r.ok THEN "None" ELSE "ValueError")
                          EXCEPT !.inst = rec])
             /\ IF r.ok THEN LdSave(r.s) ELSE LdKeep
  /\ nops' = nops + 1
  /\ LdUnchanged

\* store.update(id, **upd)
LdUpdate(p, id, upd) ==
  /\ nops < MaxLoadOps
  /\ LET l == load_raw(fileKind, store)
         r == StoreUpdate(l.instances, id, upd)
     IN IF l.exc # "none"
        THEN Set(p, [Returned("update", l.exc) EXCEPT !.id = id]) /\ LdKeep
        ELSE /\ Set(p, [Returned("update", IF r.ok THEN "instance" ELSE "None")
                          EXCEPT !.id = id,
                                 !.found = IF r.ok THEN Get(r.s, id) ELSE NoInst])
             /\ IF r.ok THEN LdSave(r.s) ELSE LdKeep
  /\ nops' = nops + 1
  /\ LdUnchanged

\* store.remove(id)
LdRemove(p, id) ==
  /\ nops < MaxLoadOps
  /\ LET l == load_raw(fileKind, store)
         r == StoreRemove(l.instances, id)
     IN IF l.exc # "none"
        THEN Set(p, [Returned("remove", l.exc) EXCEPT !.id = id]) /\ LdKeep
        ELSE /\ Set(p, [Returned("remove", IF r.ok THEN "True" ELSE "False")
                          EXCEPT !.id = id])
             /\ IF r.ok THEN LdSave(r.s) ELSE LdKeep
  /\ nops' = nops + 1
  /\ LdUnchanged

\* store.clear_all()
LdClear(p) ==
  /\ nops < MaxLoadOps
  /\ LET l == load_raw(fileKind, store)
     IN IF l.exc # "none"
        THEN Set(p, Returned("clear_all", l.exc)) /\ LdKeep
        ELSE Set(p, Returned("clear_all", "None")) /\ LdSave(<<>>)
  /\ nops' = nops + 1
  /\ LdUnchanged

\* store.list_all(include_stopped)
LdList(p, incl) ==
  /\ nops < MaxLoadOps
  /\ LET l == load_raw(fileKind, store)
     IN IF l.exc # "none"
        THEN Set(p, [Returned("list_all", l.exc) EXCEPT !.incl = incl])
        ELSE Set(p, [Returned("list_all", "instances") EXCEPT
                       !.incl = incl, !.loaded = ListAll(l.instances, incl)])
  /\ LdKeep
  /\ nops' = nops + 1
  /\ LdUnchanged

\* store.find_by_name_or_id(identifier)
LdFind(p, identifier) ==
  /\ nops < MaxLoadOps
  /\ LET l == load_raw(fileKind, store)
     IN IF l.exc # "none"
        THEN Set(p, [Returned("find", l.exc) EXCEPT !.id = identifier])
        ELSE Set(p, [Returned("find", "instance") EXCEPT
                       !.id = identifier,
                       !.found = find_by_name_or_id(l.instances, identifier)])
  /\ LdKeep
  /\ nops' = nops + 1
  /\ LdUnchanged

\* something other than rushd deletes the file, takes its read permission
\* away or overwrites it; what it held is gone
Damage(kind) ==
  /\ fileKind # kind
  /\ fileKind' = kind
  /\ store' = <<>>
  /\ UNCHANGED <<proc, nops>>
  /\ LdUnchanged

\* a fresh installation: no instances.json yet
InitLoad ==
  /\ store = <<>>
  /\ ghost = <<>>
  /\ tmux = Session
  /\ fileTrunc = FALSE
  /\ lock = [p \in Procs |-> "none"]
  /\ logs = [d \in Dirs |-> <<>>]
  /\ now = 0
  /\ proc = [p \in Procs |-> IdleProc]
  /\ torn = FALSE
  /\ stable = NoSnap
  /\ nops = 0
  /\ nticks = 0
  /\ fileKind = "missing"
  /\ pane = 0
  /\ wait = NoWait
  /\ InitNotifVars
  /\ InitBridgeVars

NextLoad ==
  \/ \E id \in IdSpace, name \in StartNames :
       LdAdd(1, InstanceMetadata(id, FreshUuid, name, "running", 1, 1, now))
  \/ \E id \in IdSpace : LdUpdate(1, id, [status |-> "stopped"])
  \/ \E id \in IdSpace : LdRemove(1, id)
  \/ LdClear(1)
  \/ \E incl \in BOOLEAN : LdList(1, incl)
  \/ \E identifier \in Identifiers : LdFind(1, identifier)
  \/ \E kind \in FileKinds \ {"valid"} : Damage(kind)

SpecLoad == InitLoad /\ [][NextLoad]_vars

----------------------------------------------------------------------------
(* C23 *)

\* C23: every Registry operation treats a store file that is missing,
\* unreadable, not parseable, or parseable but not a valid store structure as
\* an empty store: no operation fails hard on it, a read returns no record,
\* and a write proceeds from the empty store.
C23_DamagedFileIsEmptyStore ==
  [][(nops' = nops + 1 /\ fileKind # "valid") =>
       /\ proc'[1].res \notin LoadErrors
       /\ proc'[1].op = "list_all" => proc'[1].loaded = <<>>
       /\ proc'[1].op = "find" => proc'[1].found = NoInst
       /\ proc'[1].op = "update" => proc'[1].res = "None" /\ LdKeep
       /\ proc'[1].op = "remove" => proc'[1].res = "False" /\ LdKeep
       /\ proc'[1].op = "add" =>
            /\ proc'[1].res = "None"
            /\ store' = <<proc'[1].inst>> /\ fileKind' = "valid"
       /\ proc'[1].op = "clear_all" =>
            /\ proc'[1].res = "None"
            /\ store' = <<>> /\ fileKind' = "valid"
    ]_vars

----------------------------------------------------------------------------
(* C24, C25 *)

\* process p returns from a send on an instance it resolved
SendReturns(p, op) ==
  /\ proc[p].pc \in {"send_text", "send_enter", "send_update"}
  /\ proc[p].op = op
  /\ proc'[p].pc = "idle"

\* C24 as stated: send_message on a resolved instance always sends the text
\* followed by Enter; send_key sends the key and never an Enter.
C24_MessageAlwaysTextThenEnter ==
  [][\A p \in Procs :
       /\ SendReturns(p, "send_message") => CmdNames(proc'[p].cmds) = <<"text", "Enter">>
       /\ SendReturns(p, "send_key") => CmdNames(proc'[p].cmds) = <<"text">>
    ]_vars

\* C24, amended: send_message on a resolved instance sends the text and,
\* unless that command exits nonzero, Enter after it; send_key sends the key
\* and never an Enter.
C24_MessageTextThenEnterUnlessTextFails ==
  [][\A p \in Procs :
       /\ SendReturns(p, "send_message") =>
            /\ proc'[p].cmds # <<>>
            /\ proc'[p].cmds[1].cmd = "text"
            /\ proc'[p].cmds[1].ok => CmdNames(proc'[p].cmds) = <<"text", "Enter">>
            /\ ~proc'[p].cmds[1].ok => CmdNames(proc'[p].cmds) = <<"text">>
       /\ SendReturns(p, "send_key") => CmdNames(proc'[p].cmds) = <<"text">>
    ]_vars

\* a send_message has returned after the text and Enter, a send_key after
\* the key alone
C24_Witness ==
  /\ proc[1].op = "send_message" /\ At(1, "idle")
  /\ CmdNames(proc[1].cmds) = <<"text", "Enter">>
  /\ proc[2].op = "send_key" /\ At(2, "idle")
  /\ CmdNames(proc[2].cmds) = <<"text">> /\ proc[2].res = "True"

AllOk(cmds) == \A k \in DOMAIN cmds : cmds[k].ok

\* C25: send_keys with enter sends the text first and Enter as a separate,
\* later command: each step issues one command, the first is the text and
\* Enter comes only second.  If the text command exits nonzero, Enter is
\* never sent and the result is false.  The result is true only if every
\* command issued exited zero (and then it is true).
C25_TextThenEnter ==
  [][\A p \in Procs :
       /\ (proc[p].op = "send_message" /\ Acts(p)
             /\ proc[p].pc \in {"send_text", "send_enter"}) =>
            /\ Len(proc'[p].cmds) = Len(proc[p].cmds) + 1
            /\ At(p, "send_text") =>
                 proc[p].cmds = <<>> /\ proc'[p].cmds[1].cmd = "text"
            /\ At(p, "send_enter") =>
                 /\ CmdNames(proc[p].cmds) = <<"text">> /\ proc[p].cmds[1].ok
                 /\ proc'[p].cmds[2].cmd = "Enter"
       /\ SendReturns(p, "send_message") =>
            /\ ~proc'[p].cmds[1].ok =>
                 Len(proc'[p].cmds) = 1 /\ proc'[p].res = "False"
            /\ proc'[p].res = "True" <=> AllOk(proc'[p].cmds)
            /\ proc'[p].res \in {"True", "False"}
    ]_vars

\* a send with enter has returned false after a text command that exited
\* zero and an Enter that did not, and another after a failed text command
C25_Witness ==
  /\ proc[1].op = "send_message" /\ At(1, "idle") /\ proc[1].res = "False"
  /\ CmdNames(proc[1].cmds) = <<"text", "Enter">>
  /\ proc[1].cmds[1].ok /\ ~proc[1].cmds[2].ok
  /\ proc[2].op = "send_message" /\ At(2, "idle") /\ proc[2].res = "False"
  /\ CmdNames(proc[2].cmds) = <<"text">>

----------------------------------------------------------------------------
(* C26 *)

\* process p ends its pass over the record insts[i] of a list or a refresh
PassOver(p, op) ==
  /\ proc[p].op = op /\ proc'[p].op = op
  /\ proc[p].i \in DOMAIN proc[p].insts
  /\ proc'[p].i = proc[p].i + 1

LastActivity(s, id) == Get(s, id).last_activity

\* C26 as stated: last_activity of a record is updated on every
\* reconciliation pass over it, that of refresh_statuses and that inside
\* list, and on every outbound message sent with send_message.
C26_EveryPassStamps ==
  [][\A p \in Procs :
       /\ (PassOver(p, "refresh") \/ PassOver(p, "list")) =>
            LastActivity(store', proc[p].insts[proc[p].i].id) = now
       /\ SendReturns(p, "send_message") =>
            LastActivity(store', proc[p].found.id) = now
    ]_vars

\* C26, amended: last_activity of a record is set to the current time by
\* every pass of refresh_statuses over it that finds its window alive, and by
\* every send_message to it that returns true; a pass of refresh_statuses
\* that finds the window gone, the reconciliation inside list, and a
\* send_message that returns false leave it as it was.
C26_LiveRefreshAndSentMessageStamp ==
  [][\A p \in Procs :
       /\ PassOver(p, "refresh") =>
            LastActivity(store', proc[p].insts[proc[p].i].id) =
              (IF At(p, "rf_update") THEN now
               ELSE LastActivity(store, proc[p].insts[proc[p].i].id))
       /\ (PassOver(p, "refresh") /\ At(p, "rf_update")) => proc[p].we
       /\ (PassOver(p, "refresh") /\ ~At(p, "rf_update")) => ~proc[p].we
       /\ PassOver(p, "list") =>
            LastActivity(store', proc[p].insts[proc[p].i].id)
              = LastActivity(store, proc[p].insts[proc[p].i].id)
       /\ SendReturns(p, "send_message") =>
            LastActivity(store', proc[p].found.id) =
              (IF proc'[p].res = "True" THEN now
               ELSE LastActivity(store, proc[p].found.id))
    ]_vars

\* the clock has advanced since the record was last stamped, and a refresh
\* has just passed over it with its window alive and stamped it
C26_Witness ==
  /\ proc[1].op = "refresh" /\ At(1, "rf_probe") /\ proc[1].i = 2
  /\ proc[1].insts[1].last_activity < now
  /\ proc[1].insts[1].tmux_window \in tmux.windows
  /\ LastActivity(store, proc[1].insts[1].id) = now

----------------------------------------------------------------------------
(* logs.py, detect_activity_state on any log: SpecDetect *)

MaxDetLog == 2

\* timestamps of entries and readings of the clock that put the age of the
\* latest entry below, at and above the idle threshold
DetTimes == {0, IdleThreshold}
DetNow == {IdleThreshold, 2 * IdleThreshold - 1}

\* a thinking text or a tool result: None, "", "a"; a tool name: None, "a";
\* a timestamp: one that parses, or one that does not (NoTime)
DetLines ==
  {LogEntry(ts, thinking, tool_name, tool_result) :
     ts \in DetTimes \cup {NoTime}, thinking \in {NoName, <<>>, <<1>>},
     tool_name \in {NoName, <<1>>}, tool_result \in {NoName, <<>>, <<1>>}}
  \cup {SkippedLine}

\* the agent appends in the order of time
Chronological(log) ==
  \A i, j \in DOMAIN log :
    (i < j /\ log[i].ts # NoTime /\ log[j].ts # NoTime) => log[i].ts <= log[j].ts

DetLogs ==
  {log \in UNION {[1..n -> DetLines] : n \in 0..MaxDetLog} : Chronological(log)}

InitDetect ==
  /\ \E log \in DetLogs : logs = [d \in Dirs |-> log]
  /\ now \in DetNow
  /\ store = <<>>
  /\ ghost = <<>>
  /\ tmux = Session
  /\ fileTrunc = FALSE
  /\ lock = [p \in Procs |-> "none"]
  /\ proc = [p \in Procs |-> IdleProc]
  /\ torn = FALSE
  /\ stable = NoSnap
  /\ nops = 0
  /\ nticks = 0
  /\ InitOthers

\* ClaudeLogReader(dir).detect_activity_state()
Detect(p, dir) ==
  /\ proc[p] = IdleProc /\ nops = 0
  /\ Set(p, [Returned("detect", "state") EXCEPT
              !.i = dir, !.activity = detect_activity_state(logs[dir], now)])
  /\ nops' = nops + 1
  /\ RegUnchanged

NextDetect == \E dir \in Dirs : Detect(1, dir)

SpecDetect == InitDetect /\ [][NextDetect]_vars

----------------------------------------------------------------------------
(* C27 *)

\* the lines of the log that are entries
Parsed(log) == SelectSeq(log, LAMBDA e : e # SkippedLine)

\* the latest entry is younger than the idle threshold
Recent(e) == e.ts # NoTime /\ now - e.ts < IdleThreshold

----------------------------------------------------------------------------
(* tmux.py, wait_for_idle: SpecWait.  Time is counted in poll intervals. *)

MaxTimeout == 5
MaxStableCount == 2
MaxOversleep == 1

\* what capture_pane can return: "" (0, also for a window that is gone) or
\* some text
PaneContents == 0..2

\* hashlib.md5(content.encode()).hexdigest(): distinct on the contents used
md5(content) == 16 * content + 9

WaitUnchanged ==
  UNCHANGED <<store, fileTrunc, lock, tmux, logs, proc, ghost, torn, stable,
              nops, nticks, loadVars, notifVars, bridgeVars>>

\* wait_for_idle, lines 160-162
WaitForIdle(timeout, stable_count) ==
  /\ wait.pc = "idle"
  /\ wait' = [NoWait EXCEPT !.pc = "test", !.timeout = timeout, !.poll_interval = 1,
                            !.stable_count = stable_count, !.start = now]
  /\ UNCHANGED <<now, pane>>
  /\ WaitUnchanged

\* wait_for_idle, lines 164 and 178: the test of the loop
WaitTest ==
  /\ wait.pc = "test"
  /\ wait' = IF now - wait.start < wait.timeout THEN [wait EXCEPT !.pc = "poll"]
             ELSE [wait EXCEPT !.pc = "done", !.res = "False"]
  /\ UNCHANGED <<now, pane>>
  /\ WaitUnchanged

\* mutant: a change of the hash does not reset the count
WaitPoll_NoReset ==
  /\ wait.pc = "poll"
  /\ LET current_hash == md5(pane)
         captured == Append(wait.captured, pane)
     IN wait' =
          IF current_hash = wait.last_hash
          THEN IF wait.stable + 1 >= wait.stable_count
               THEN [wait EXCEPT !.pc = "done", !.res = "True",
                                 !.stable = @ + 1, !.captured = captured]
               ELSE [wait EXCEPT !.pc = "sleep", !.stable = @ + 1,
                                 !.captured = captured]
          ELSE [wait EXCEPT !.pc = "sleep", !.last_hash = current_hash,
                            !.captured = captured]
  /\ UNCHANGED <<now, pane>>
  /\ WaitUnchanged

\* wait_for_idle, lines 165-174: capture, hash, compare
WaitPoll ==
  /\ wait.pc = "poll"
  /\ LET current_hash == md5(pane)
         captured == Append(wait.captured, pane)
     IN wait' =
          IF current_hash = wait.last_hash
          THEN IF wait.stable + 1 >= wait.stable_count
               THEN [wait EXCEPT !.pc = "done", !.res = "True",
                                 !.stable = @ + 1, !.captured = captured]
               ELSE [wait EXCEPT !.pc = "sleep", !.stable = @ + 1,
                                 !.captured = captured]
          ELSE [wait EXCEPT !.pc = "sleep", !.stable = 0,
                            !.last_hash = current_hash, !.captured = captured]
  /\ UNCHANGED <<now, pane>>
  /\ WaitUnchanged

\* wait_for_idle, line 176: time.sleep(poll_interval) returns after the
\* interval, or later
WaitSleep(over) ==
  /\ wait.pc = "sleep"
  /\ now' = now + wait.poll_interval + over
  /\ wait' = [wait EXCEPT !.pc = "test"]
  /\ UNCHANGED pane
  /\ WaitUnchanged

\* the program in the pane writes to it
PaneChanges(content) ==
  /\ wait.pc \in {"test", "sleep"}
  /\ content # pane
  /\ pane' = content
  /\ UNCHANGED <<now, wait>>
  /\ WaitUnchanged

InitWait ==
  /\ store = <<>>
  /\ ghost = <<>>
  /\ tmux = new_window(Session, 1, <<1>>, 1)
  /\ fileTrunc = FALSE
  /\ lock = [p \in Procs |-> "none"]
  /\ logs = [d \in Dirs |-> <<>>]
  /\ now = 0
  /\ proc = [p \in Procs |-> IdleProc]
  /\ torn = FALSE
  /\ stable = NoSnap
  /\ nops = 0
  /\ nticks = 0
  /\ fileKind = "valid"
  /\ pane \in PaneContents
  /\ wait = NoWait
  /\ InitNotifVars
  /\ InitBridgeVars

WaitStep == WaitTest \/ WaitPoll \/ \E over \in 0..MaxOversleep : WaitSleep(over)

NextWait ==
  \/ \E timeout \in 0..MaxTimeout, stable_count \in 1..MaxStableCount :
       WaitForIdle(timeout, stable_count)
  \/ WaitStep
  \/ \E content \in PaneContents : PaneChanges(content)

\* the loop runs: capture_pane and time.sleep return
SpecWait == InitWait /\ [][NextWait]_vars /\ WF_vars(WaitStep)

----------------------------------------------------------------------------
(* C28 *)

\* at poll n the content (hence its hash) was the same as at the poll before,
\* for the k-th poll in a row
UnchangedFor(captured, n, k) ==
  n > k /\ \A j \in (n - k + 1)..n : captured[j] = captured[j - 1]

\* the number of consecutive polls, up to the last one, that found the
\* content unchanged
RECURSIVE Trailing(_)
Trailing(captured) ==
  IF Len(captured) <= 1 THEN 0
  ELSE IF captured[Len(captured)] # captured[Len(captured) - 1] THEN 0
  ELSE 1 + Trailing(SubSeq(captured, 1, Len(captured) - 1))

WaitSafe ==
  LET n == Len(wait.captured)
      k == wait.stable_count
  IN /\ wait.stable = Trailing(wait.captured)
     /\ wait.res = "True" =>
          /\ UnchangedFor(wait.captured, n, k)
          /\ \A m \in 1..(n - 1) : ~UnchangedFor(wait.captured, m, k)
     /\ wait.pc # "done" => \A m \in 1..n : ~UnchangedFor(wait.captured, m, k)
     /\ wait.res = "False" =>
          /\ now - wait.start >= wait.timeout
          /\ \A m \in 1..n : ~UnchangedFor(wait.captured, m, k)
     /\ wait.pc = "done" <=> wait.res \in {"True", "False"}
     /\ (wait.pc = "done" /\ \A j \in 2..n : wait.captured[j] # wait.captured[j - 1])
          => wait.res = "False"
     /\ n * wait.poll_interval <= wait.timeout
     /\ (wait.pc = "sleep" => now - wait.start < wait.timeout)

\* C28: wait_for_idle returns true as soon as the hash of the captured pane
\* content has been unchanged for stable_count consecutive polls, the count
\* going back to zero at every change; it returns false once the timeout has
\* elapsed without that, and only then; it returns false for a pane whose
\* content changes at every poll.  The loop always terminates: it polls at
\* most timeout / poll_interval times, and every call returns.
C28_WaitForIdle ==
  /\ []WaitSafe
  /\ (wait.pc # "idle") ~> (wait.pc = "done")

\* wait_for_idle has returned true at its fifth poll, the count having gone
\* back to zero at the third
C28_Witness ==
  /\ wait.res = "True" /\ wait.stable_count = 2
  /\ Len(wait.captured) = 5
  /\ wait.captured[1] = wait.captured[2]
  /\ wait.captured[2] # wait.captured[3]

----------------------------------------------------------------------------
(* notifications.py: SpecNotif (processes interleaved at every file        *)
(* operation) and SpecNotifSeq (one process).  The clock `now` counts      *)
(* ticks of 1 / TicksPerSecond second.                                     *)

MaxNotifOps == 3
MaxNTicks == 3
\* retention_days, an argument of the constructor, in ticks
Retention == 2

\* the resolution of datetime.now() against the %S of strftime
TicksPerSecond == 2

\* worker names: "a " and None; worker ids
WorkerNames == {<<1, 9>>, NoName}
WorkerIds == {<<1, 1>>}

\* the Notification record as notifications.py reads and writes it: the
\* fields the file name is built from, and the delivery flag
Notification(id, worker_id, worker_name, created_at) ==
  [id |-> id, worker_id |-> worker_id, worker_name |-> worker_name,
   created_at |-> created_at, delivered |-> FALSE, delivered_at |-> NoTime]

\* "unknown"
UnknownName == <<2, 2>>

\* re.sub(r"[^\w\-]", "_", worker_name or "unknown"): the space (9) becomes
\* an underscore (8)
safe_name(worker_name) ==
  IF Truthy(worker_name)
  THEN [i \in DOMAIN worker_name |-> IF worker_name[i] = 9 THEN 8 ELSE worker_name[i]]
  ELSE UnknownName

\* created_at.strftime("%Y%m%d_%H%M%S"): the time down to the second
strftime(created_at) == created_at \div TicksPerSecond

\* _get_filename
get_filename(notification) ==
  <<safe_name(notification.worker_name), notification.worker_id,
    strftime(notification.created_at)>>

NotifUnchanged ==
  UNCHANGED <<store, fileTrunc, lock, tmux, logs, proc, ghost, torn, stable,
              loadVars, waitVars, bridgeVars>>

NSet(p, r) == nproc' = [nproc EXCEPT ![p] = r]

\* the caller once the operation has returned res
NReturned(p, res) ==
  [IdleNProc EXCEPT !.op = nproc[p].op, !.res = res, !.path = nproc[p].path,
                    !.notification = nproc[p].notification, !.count = nproc[p].count]

\* open(path, "w"): the file is created, or truncated in place
OpenW(p, path, pc) ==
  IF path \in DOMAIN store_dir
  THEN /\ store_dir' = [store_dir EXCEPT ![path].data = Truncated, ![path].mtime = now]
       /\ NSet(p, [nproc[p] EXCEPT !.pc = pc, !.ino = store_dir[path].ino])
       /\ UNCHANGED nhist
  ELSE /\ store_dir' = [f \in DOMAIN store_dir \cup {path} |->
                          IF f = path
                          THEN [ino |-> nhist.inos + 1, data |-> Truncated, mtime |-> now]
                          ELSE store_dir[f]]
       /\ NSet(p, [nproc[p] EXCEPT !.pc = pc, !.ino = nhist.inos + 1])
       /\ nhist' = [nhist EXCEPT !.inos = @ + 1]

\* json.dump(data, f) on the file opened: it goes to that file even if the
\* name has been unlinked, or given to another file, since
Dump(dir, path, ino, data) ==
  IF path \in DOMAIN dir /\ dir[path].ino = ino
  THEN [dir EXCEPT ![path].data = data, ![path].mtime = now]
  ELSE dir

\* save, lines 43-51; created_at defaults to datetime.now()
NSave(p, worker_name, worker_id) ==
  /\ nproc[p].pc = "idle"
  /\ LET notification == Notification(nhist.ids + 1, worker_id, worker_name, now)
     IN NSet(p, [IdleNProc EXCEPT !.op = "save", !.pc = "save_open",
                   !.notification = notification,
                   !.path = get_filename(notification)])
  /\ nhist' = [nhist EXCEPT !.ids = @ + 1]
  /\ nops' = nops + 1
  /\ UNCHANGED <<store_dir, now, nticks>>
  /\ NotifUnchanged

\* save, line 53
NSaveOpen(p) ==
  /\ nproc[p].pc = "save_open"
  /\ OpenW(p, nproc[p].path, "save_dump")
  /\ UNCHANGED <<now, nops, nticks>>
  /\ NotifUnchanged

\* save, lines 54-56
NSaveDump(p) ==
  /\ nproc[p].pc = "save_dump"
  /\ store_dir' = Dump(store_dir, nproc[p].path, nproc[p].ino, nproc[p].notification)
  /\ nhist' = [nhist EXCEPT !.saved = @ \cup {nproc[p].notification}]
  /\ NSet(p, NReturned(p, "path"))
  /\ UNCHANGED <<now, nops, nticks>>
  /\ NotifUnchanged

\* mark_delivered, lines 68-69
NMark(p, path) ==
  /\ nproc[p].pc = "idle"
  /\ IF path \in DOMAIN store_dir
     THEN NSet(p, [IdleNProc EXCEPT !.op = "mark_delivered", !.pc = "mark_read",
                     !.path = path])
     ELSE NSet(p, [IdleNProc EXCEPT !.op = "mark_delivered", !.res = "False",
                     !.path = path])
  /\ nops' = nops + 1
  /\ UNCHANGED <<store_dir, nhist, now, nticks>>
  /\ NotifUnchanged

\* mark_delivered, lines 72-76; lines 82-83 for a file that is gone (OSError)
\* or empty (JSONDecodeError)
NMarkRead(p) ==
  /\ nproc[p].pc = "mark_read"
  /\ LET path == nproc[p].path
     IN IF path \notin DOMAIN store_dir \/ store_dir[path].data = Truncated
        THEN NSet(p, NReturned(p, "False"))
        ELSE NSet(p, [nproc[p] EXCEPT !.pc = "mark_open",
                        !.data = [store_dir[path].data EXCEPT
                                    !.delivered = TRUE, !.delivered_at = now]])
  /\ UNCHANGED <<store_dir, nhist, now, nops, nticks>>
  /\ NotifUnchanged

\* mark_delivered, line 78
NMarkOpen(p) ==
  /\ nproc[p].pc = "mark_open"
  /\ OpenW(p, nproc[p].path, "mark_dump")
  /\ UNCHANGED <<now, nops, nticks>>
  /\ NotifUnchanged

\* mark_delivered, lines 79-81
NMarkDump(p) ==
  /\ nproc[p].pc = "mark_dump"
  /\ store_dir' = Dump(store_dir, nproc[p].path, nproc[p].ino, nproc[p].data)
  /\ nhist' = [nhist EXCEPT !.marked = @ \cup {<<nproc[p].path, nproc[p].data.id>>}]
  /\ NSet(p, NReturned(p, "True"))
  /\ UNCHANGED <<now, nops, nticks>>
  /\ NotifUnchanged

\* cleanup_old_notifications, lines 155-161
NCleanup(p) ==
  /\ nproc[p].pc = "idle"
  /\ NSet(p, [IdleNProc EXCEPT !.op = "cleanup", !.pc = "cl_next",
                !.files = DOMAIN store_dir, !.cutoff = now - Retention])
  /\ nops' = nops + 1
  /\ UNCHANGED <<store_dir, nhist, now, nticks>>
  /\ NotifUnchanged

\* cleanup_old_notifications, lines 161-164 and 170: the next file, its stat
NCleanupNext(p) ==
  /\ nproc[p].pc = "cl_next"
  /\ IF nproc[p].files = {}
     THEN NSet(p, NReturned(p, "count"))
     ELSE LET path == CHOOSE f \in nproc[p].files : TRUE
          IN IF path \in DOMAIN store_dir /\ store_dir[path].mtime < nproc[p].cutoff
             THEN NSet(p, [nproc[p] EXCEPT !.pc = "cl_unlink", !.path = path,
                                           !.files = @ \ {path}])
             ELSE NSet(p, [nproc[p] EXCEPT !.files = @ \ {path}])
  /\ UNCHANGED <<store_dir, nhist, now, nops, nticks>>
  /\ NotifUnchanged

\* cleanup_old_notifications, lines 165-168
NCleanupUnlink(p) ==
  /\ nproc[p].pc = "cl_unlink"
  /\ LET path == nproc[p].path
     IN IF path \in DOMAIN store_dir
        THEN /\ store_dir' = [f \in DOMAIN store_dir \ {path} |-> store_dir[f]]
             /\ nhist' = [nhist EXCEPT !.unlinked = @ \cup {path}]
             /\ NSet(p, [nproc[p] EXCEPT !.pc = "cl_next", !.count = @ + 1])
        ELSE /\ UNCHANGED <<store_dir, nhist>>
             /\ NSet(p, [nproc[p] EXCEPT !.pc = "cl_next"])
  /\ UNCHANGED <<now, nops, nticks>>
  /\ NotifUnchanged

\* the clock advances by one tick
NTick ==
  /\ nticks < MaxNTicks
  /\ now' = now + 1
  /\ nticks' = nticks + 1
  /\ UNCHANGED <<notifVars, nops>>
  /\ NotifUnchanged

NBegin(p) ==
  \/ \E worker_name \in WorkerNames, worker_id \in WorkerIds : NSave(p, worker_name, worker_id)
  \/ \E path \in DOMAIN store_dir \cup nhist.unlinked : NMark(p, path)
  \/ NCleanup(p)

NStep(p) ==
  \/ NSaveOpen(p) \/ NSaveDump(p)
  \/ NMarkRead(p) \/ NMarkOpen(p) \/ NMarkDump(p)
  \/ NCleanupNext(p) \/ NCleanupUnlink(p)

InitNotif ==
  /\ store = <<>>
  /\ ghost = <<>>
  /\ tmux = Session
  /\ fileTrunc = FALSE
  /\ lock = [p \in Procs |-> "none"]
  /\ logs = [d \in Dirs |-> <<>>]
  /\ now = 0
  /\ proc = [p \in Procs |-> IdleProc]
  /\ torn = FALSE
  /\ stable = NoSnap
  /\ nops = 0
  /\ nticks = 0
  /\ InitOthers

NextNotif ==
  \/ \E p \in Procs : nops < MaxNotifOps /\ NBegin(p)
  \/ \E p \in Procs : NStep(p)
  \/ NTick

SpecNotif == InitNotif /\ [][NextNotif]_vars

NextNotifSeq ==
  \/ nops < MaxNotifOps /\ NBegin(1)
  \/ NStep(1)
  \/ NTick

SpecNotifSeq == InitNotif /\ [][NextNotifSeq]_vars

----------------------------------------------------------------------------
(* C29 *)

SameWorker(a, b) == a.worker_name = b.worker_name /\ a.worker_id = b.worker_id

\* C29: two notifications with identical worker_name and worker_id and
\* different creation timestamps are stored under two distinct filenames, so
\* that saving the second never overwrites the first: between operations,
\* every notification saved is still in the file of its name, unless cleanup
\* has deleted that file.  mark_delivered on one leaves the delivered flag of
\* the other unchanged: a stored notification is flagged delivered only if
\* mark_delivered returned true for its own file.
C29_DistinctFilenamesAppendOnly ==
  /\ \A a, b \in nhist.saved :
       (a.id # b.id /\ SameWorker(a, b) /\ a.created_at # b.created_at)
         => get_filename(a) # get_filename(b)
  /\ nproc[1].pc = "idle" =>
       \A a \in nhist.saved :
         get_filename(a) \notin nhist.unlinked =>
           /\ get_filename(a) \in DOMAIN store_dir
           /\ store_dir[get_filename(a)].data.id = a.id
  /\ \A f \in DOMAIN store_dir :
       (store_dir[f].data # Truncated /\ store_dir[f].data.delivered)
         => <<f, store_dir[f].data.id>> \in nhist.marked

----------------------------------------------------------------------------
(* C30 *)

\* process p is inside save, mark_delivered or cleanup on the file f
Inside(p, f) ==
  \/ nproc[p].pc \in {"save_open", "save_dump", "mark_read", "mark_open", "mark_dump",
                      "cl_unlink"}
       /\ nproc[p].path = f
  \/ nproc[p].pc = "cl_next" /\ f \in nproc[p].files

\* the file f is what a mark_delivered that returned true for the
\* notification id left: there, whole, holding that notification, flagged
DeliveredKept(f, id) ==
  /\ f \in DOMAIN store_dir
  /\ store_dir[f].data # Truncated
  /\ store_dir[f].data.id = id
  /\ store_dir[f].data.delivered

\* C30: the notification directory is accessed only through a lock-guarded
\* read-modify-write: no two processes are at the same time inside save,
\* mark_delivered or cleanup on the same notification file, so that, once
\* nobody is inside, a file for which mark_delivered returned true is neither
\* truncated nor lost (short of a cleanup past retention) nor without the
\* delivered flag.
C30_LockGuarded ==
  /\ \A p, q \in Procs : \A f \in DOMAIN store_dir :
       (Inside(p, f) /\ Inside(q, f)) => p = q
  /\ \A m \in nhist.marked :
       ((\A p \in Procs : ~Inside(p, m[1])) /\ m[1] \notin nhist.unlinked)
         => DeliveredKept(m[1], m[2])

----------------------------------------------------------------------------
(* C31 *)

\* the notification files a step deletes
Deleted == DOMAIN store_dir \ DOMAIN store_dir'

\* C31: a notification is kept until it is delivered and until the
\* retention window is over: cleanup_old_notifications never deletes a
\* notification created less than retention_days ago, never deletes one that
\* has not been marked delivered, counts one for each file it deletes, and
\* when it returns, the count is the number of files it deleted and no
\* delivered notification created before its cutoff is left.
C31_RetentionCleanup ==
  [][/\ \A f \in Deleted :
          /\ store_dir[f].data.created_at + Retention <= now
          /\ store_dir[f].data.delivered
     /\ nproc[1].pc \in {"cl_next", "cl_unlink"} =>
          nproc'[1].count - nproc[1].count = Cardinality(Deleted)
     /\ (nproc[1].pc = "cl_next" /\ nproc'[1].pc = "idle") =>
          \A f \in DOMAIN store_dir :
            ~(/\ store_dir[f].data.delivered
              /\ store_dir[f].data.created_at < nproc[1].cutoff)]_vars

----------------------------------------------------------------------------
(* C32 *)

\* the fields of a record that are given at its creation and never written
\* after
CreationFields ==
  {"id", "full_id", "name", "working_dir", "tmux_window", "created_at", "auto_approve"}

----------------------------------------------------------------------------
(* C37 *)

\* process p takes the last step of a start, which returns or raises
StartEnds(p) == proc[p].op = "start" /\ proc[p].pc # "idle" /\ proc'[p].pc = "idle"

\* C37: every window created by start is tracked: when a start call ends,
\* with the record returned or with the failure of a name collision, the
\* window it created, if still there, is the window of the record the call
\* has put into the Registry, so that a failed start leaves no untracked
\* running window.
C37_StartedWindowTracked ==
  [][\A p \in Procs :
       (StartEnds(p) /\ proc[p].inst.tmux_window \in tmux'.windows)
         => \E i \in DOMAIN store' :
              /\ store'[i].full_id = proc[p].inst.full_id
              /\ store'[i].tmux_window = proc[p].inst.tmux_window]_vars

----------------------------------------------------------------------------
(* C38 *)

\* a record other than rec, not stopped, whose window is the live window that
\* the window_ref of rec designates
OwnedByAnother(rec) ==
  \E i \in DOMAIN store :
    /\ store[i].full_id # rec.full_id
    /\ store[i].status # "stopped"
    /\ store[i].tmux_window = rec.tmux_window
    /\ rec.tmux_window \in tmux.windows

\* C38: operations on one instance never act on the window of another: when
\* tmux has given the index of a killed window to a later start, the
\* interrupt and the kill of stop and the keystrokes of send_message and
\* send_key, applied to the earlier, stopped record, are not issued against
\* the window that the later record now owns; and no two records that are not
\* stopped hold the same tmux_window.
C38_NoActionOnAnothersWindow ==
  [][/\ \A p \in Procs :
          (/\ proc[p].op \in {"stop", "send_message", "send_key"}
           /\ proc[p].pc \in {"stop_int", "stop_kill", "send_text", "send_enter"}
           /\ Acts(p)
           /\ proc[p].found.status = "stopped")
            => ~OwnedByAnother(proc[p].found)
     /\ \A i, j \in DOMAIN store :
          (i # j /\ store[i].status # "stopped" /\ store[j].status # "stopped")
            => store[i].tmux_window # store[j].tmux_window]_vars

----------------------------------------------------------------------------
(* C39 *)

\* C39: window_exists is a pure query: no step of list, refresh_statuses,
\* is_primary_running or get_activity_state changes the session: its windows,
\* their names and panes, and the window currently selected stay as they are.
C39_WindowExistsIsPure ==
  [][\A p \in Procs :
       (/\ proc[p].op \in {"list", "refresh", "is_primary_running", "get_activity_state"}
        /\ proc[p].pc # "idle"
        /\ Acts(p))
         => tmux' = tmux]_vars

----------------------------------------------------------------------------
(* C40: SpecStoreFair, the Registry operations with a fair flock *)

\* a step of process p inside a Registry operation, once the lock is granted
StStep(p) ==
  \/ AddCheck(p) \/ AddPut(p) \/ UpdateBody(p) \/ RemoveBody(p) \/ ClearBody(p)
  \/ SaveOpen(p) \/ SaveDump(p) \/ LoadBody(p) \/ Unlock(p)

\* a process inside an operation goes on running, and a process waiting in
\* flock is granted the lock if the lock is compatible again and again
SpecStoreFair ==
  /\ InitStore /\ [][NextStore]_vars
  /\ \A p \in Procs : WF_vars(StStep(p)) /\ SF_vars(Flock(p))

\* process p waits in flock for a lock that the locks held do not allow
Blocked(p) ==
  /\ proc[p].pc \in {"lock_ex", "lock_sh"}
  /\ ~CanLock(p, At(p, "lock_ex"))

\* C40: the Registry lock is released when an operation ends, also when add
\* fails on a name collision: a process outside an operation, or waiting for
\* the lock, holds none; in no state is every process blocked on the lock;
\* and, the processes and the lock being fair, every operation begun ends.
C40_LockReleased ==
  /\ [](\A p \in Procs :
          proc[p].pc \in {"idle", "lock_ex", "lock_sh"} => lock[p] = "none")
  /\ [](\E p \in Procs : ~Blocked(p))
  /\ \A p \in Procs : (proc[p].pc # "idle") ~> (proc[p].pc = "idle")

\* an add has failed on a name collision and is about to leave the lock,
\* for which another process is waiting
C40_Witness ==
  \E p, q \in Procs :
    /\ proc[p].op = "add" /\ At(p, "unlock") /\ proc[p].res = "AlreadyExists"
    /\ Blocked(q)


-----------------------------------------------------------------------------
(* logs.py: reading the tail of a log *)

MaxReadLog == 6

\* the lines of a log: two entries that differ, a line that is blank or not
\* JSON, a housekeeping line, a JSON line of another shape than an entry
ReadLines ==
  {LogEntry(0, <<1>>, NoName, NoName), LogEntry(0, NoName, <<1>>, NoName),
   SkippedLine, HousekeepingLine, UnexpectedLine}

ReadLogs == UNION {[1..n -> ReadLines] : n \in 0..MaxReadLog}

\* the values of last_n: from one line to the number detect_activity_state
\* asks for
ReadLastNs == 1..DetectLastN

InitRead ==
  /\ \E log \in ReadLogs : logs = [d \in Dirs |-> log]
  /\ now = 0
  /\ store = <<>>
  /\ ghost = <<>>
  /\ tmux = Session
  /\ fileTrunc = FALSE
  /\ lock = [p \in Procs |-> "none"]
  /\ proc = [p \in Procs |-> IdleProc]
  /\ torn = FALSE
  /\ stable = NoSnap
  /\ nops = 0
  /\ nticks = 0
  /\ InitOthers

\* ClaudeLogReader(dir).read_entries(last_n): the entries returned, or the
\* exception raised
ReadEntries(p, dir, last_n) ==
  /\ proc[p] = IdleProc /\ nops = 0
  /\ LET read == read_entries(logs[dir], last_n)
     IN Set(p, [Returned("read_entries",
                         IF read.raised = "none" THEN "entries" ELSE read.raised)
                  EXCEPT !.i = dir, !.count = last_n, !.loaded = read.entries])
  /\ nops' = nops + 1
  /\ RegUnchanged

NextRead ==
  \E dir \in Dirs :
    \/ \E last_n \in ReadLastNs : ReadEntries(1, dir, last_n)
    \/ Detect(1, dir)

SpecRead == InitRead /\ [][NextRead]_vars

-----------------------------------------------------------------------------
(* C35 *)

\* a well-formed line that is not housekeeping
EntryLine(line) == line \notin {SkippedLine, HousekeepingLine, UnexpectedLine}

\* C35: read_entries(last_n) returns, whatever the other lines of the log
\* are (a malformed line is skipped and does not abort the read, a
\* housekeeping line is dropped), one entry for every other line among the
\* last last_n lines, in the order of the log, so at most last_n entries; and
\* detect_activity_state reports unknown only when the log has no entries
C35_ReadEntries ==
  \A p \in Procs :
    /\ proc[p].op = "read_entries" =>
         /\ proc[p].res = "entries"
         /\ proc[p].loaded =
              SelectSeq(LastLines(logs[proc[p].i], proc[p].count), EntryLine)
         /\ Len(proc[p].loaded) <= proc[p].count
    /\ proc[p].op = "detect" =>
         (proc[p].activity.status = "unknown" =>
            SelectSeq(logs[proc[p].i], EntryLine) = <<>>)


-----------------------------------------------------------------------------
(* discord_bot.py: the monitor of the primary and the /clear handler *)

MaxBridgeLog == 3
MaxClears == 1

\* last_n of the monitor's get_activity (20 in the code), of
\* _initialize_seen_entries (100) and of the marking after /clear (500),
\* scaled down, in their order
MonitorLastN == 2
InitLastN == MonitorLastN + 1
ClearLastN == InitLastN + 1

\* a LogEntry as the bridge reads it; a timestamp is a number here, the type
\* is the same for all
BotEntry(uuid, timestamp, tool_name, text_response) ==
  [uuid |-> uuid, timestamp |-> timestamp, type |-> "assistant",
   tool_name |-> tool_name, text_response |-> text_response]

\* what the agent may write as line n of its log: an entry with a uuid of its
\* own, or one without uuid, at one of two instants; the text is the line's own
NewEntries(n) ==
  {BotEntry(<<n>>, 0, NoName, <<n>>)}
    \cup {BotEntry(<<>>, timestamp, NoName, <<n>>) : timestamp \in {0, 1}}

\* the md5 digest of "timestamp:type:tool_name" is the triple itself: no two
\* contents share a digest
NoDigest == [timestamp |-> NoTime, type |-> "", tool_name |-> NoName]

\* hash_entry: the uuid when there is one, the digest otherwise
hash_entry(entry) ==
  IF entry.uuid # <<>>
  THEN [uuid |-> entry.uuid, digest |-> NoDigest]
  ELSE [uuid |-> <<>>,
        digest |-> [timestamp |-> entry.timestamp, type |-> entry.type,
                    tool_name |-> entry.tool_name]]

\* manager.get_activity(primary_name, last_n); every line of the log is an
\* entry here
get_activity(last_n) == LastLines(primary.log, last_n)

Hashes(entries) == {hash_entry(entries[j]) : j \in DOMAIN entries}

BridgeUnchanged ==
  UNCHANGED <<store, fileTrunc, lock, tmux, logs, now, proc, ghost, torn,
              stable, nops, nticks, loadVars, waitVars, notifVars>>

\* the log of the primary before the bridge connects
InitBridge ==
  /\ \E log \in {<<>>} \cup {<<e>> : e \in NewEntries(1)} :
       primary = [running |-> TRUE, log |-> log]
  /\ bot = [seen_entries |-> {}, clearing |-> FALSE]
  /\ mon = IdleMon
  /\ clr = [pc |-> "idle", clears |-> 0]
  /\ bhist = [dispatched |-> <<>>, delivered |-> {}, init_len |-> 0]
  /\ logs = [d \in Dirs |-> <<>>]
  /\ now = 0
  /\ store = <<>>
  /\ ghost = <<>>
  /\ tmux = Session
  /\ fileTrunc = FALSE
  /\ lock = [p \in Procs |-> "none"]
  /\ proc = [p \in Procs |-> IdleProc]
  /\ torn = FALSE
  /\ stable = NoSnap
  /\ nops = 0
  /\ nticks = 0
  /\ fileKind = "valid"
  /\ pane = 0
  /\ wait = NoWait
  /\ InitNotifVars

\* the agent writes its next line
AgentAppends ==
  /\ primary.running
  /\ Len(primary.log) < MaxBridgeLog
  /\ \E entry \in NewEntries(Len(primary.log) + 1) :
       primary' = [primary EXCEPT !.log = Append(@, entry)]
  /\ UNCHANGED <<bot, mon, clr, bhist>>
  /\ BridgeUnchanged

\* on_ready, lines 88-92, with _initialize_seen_entries, lines 165-177
OnReady ==
  /\ mon.pc = "not_started"
  /\ bot' = [bot EXCEPT !.seen_entries = @ \cup Hashes(get_activity(InitLastN))]
  /\ mon' = [mon EXCEPT !.pc = "m_top"]
  /\ bhist' = [bhist EXCEPT !.init_len = Len(primary.log)]
  /\ UNCHANGED <<primary, clr>>
  /\ BridgeUnchanged

\* the place of the first entry from place i on whose hash is not in seen,
\* Len(entries) + 1 if there is none
FirstUnseen(entries, i, seen) ==
  LET unseen == {j \in i..Len(entries) : hash_entry(entries[j]) \notin seen}
  IN IF unseen = {} THEN Len(entries) + 1
     ELSE CHOOSE j \in unseen : \A k \in unseen : j <= k

\* monitor_primary, lines 310-318: the for loop from place i up to its next
\* await: the entries seen are passed over, the first other one is added to
\* seen_entries and handed to send_to_activity; after the last entry, the
\* status update of lines 323-347
ForLoop(entries, i, delivered) ==
  LET j == FirstUnseen(entries, i, bot.seen_entries)
  IN IF j > Len(entries)
     THEN /\ mon' = [IdleMon EXCEPT !.pc = "m_status"]
          /\ bot' = bot
          /\ bhist' = [bhist EXCEPT !.delivered = delivered]
     ELSE /\ mon' = [pc |-> "m_send", entries |-> entries, i |-> j]
          /\ bot' = [bot EXCEPT !.seen_entries = @ \cup {hash_entry(entries[j])}]
          /\ bhist' = [bhist EXCEPT !.delivered = delivered,
                                    !.dispatched = Append(@, entries[j])]

\* monitor_primary, lines 277-318: one pass from the top of the loop to its
\* first await
MonitorPoll ==
  /\ mon.pc = "m_top"
  /\ IF bot.clearing \/ ~primary.running
     THEN /\ mon' = [mon EXCEPT !.pc = "m_sleep"]
          /\ UNCHANGED <<bot, bhist>>
     ELSE ForLoop(get_activity(MonitorLastN), 1, bhist.delivered)
  /\ UNCHANGED <<primary, clr>>
  /\ BridgeUnchanged

\* send_to_activity, lines 356-398, returns: the entry is in the channel, or
\* the send raised and the exception was printed; then the for loop goes on
MonitorSent(sent) ==
  /\ mon.pc = "m_send"
  /\ ForLoop(mon.entries, mon.i + 1,
             IF sent THEN bhist.delivered \cup {mon.entries[mon.i]}
             ELSE bhist.delivered)
  /\ UNCHANGED <<primary, clr>>
  /\ BridgeUnchanged

\* lines 335-354: the awaits of the status update and of the live view
\* return, or raise into the except clause
MonitorStatus ==
  /\ mon.pc = "m_status"
  /\ mon' = [mon EXCEPT !.pc = "m_sleep"]
  /\ UNCHANGED <<primary, bot, clr, bhist>>
  /\ BridgeUnchanged

\* asyncio.sleep(poll_interval) returns, lines 280, 302, 354
MonitorWake ==
  /\ mon.pc = "m_sleep"
  /\ mon' = [mon EXCEPT !.pc = "m_top"]
  /\ UNCHANGED <<primary, bot, clr, bhist>>
  /\ BridgeUnchanged

MonitorStep ==
  \/ MonitorPoll
  \/ \E sent \in BOOLEAN : MonitorSent(sent)
  \/ MonitorStatus
  \/ MonitorWake

\* on_message with "/clear", then _handle_clear_command, lines 94-103
ClearBegin ==
  /\ mon.pc # "not_started"
  /\ clr.pc = "idle"
  /\ clr.clears < MaxClears
  /\ bot' = [bot EXCEPT !.clearing = TRUE]
  /\ clr' = [pc |-> "c_react", clears |-> clr.clears + 1]
  /\ UNCHANGED <<primary, mon, bhist>>
  /\ BridgeUnchanged

\* lines 103-136: the awaits of the notice return (notified) or raise; then
\* the primary is stopped, removed and started again (started), or
\* start_instance raises; then seen_entries is cleared
ClearRestart(notified, started) ==
  /\ clr.pc = "c_react"
  /\ IF ~notified
     THEN /\ bot' = [bot EXCEPT !.clearing = FALSE]
          /\ clr' = [clr EXCEPT !.pc = "c_failed"]
          /\ UNCHANGED <<primary, bhist>>
     ELSE IF ~started
     THEN /\ bot' = [bot EXCEPT !.clearing = FALSE]
          /\ clr' = [clr EXCEPT !.pc = "c_failed"]
          /\ primary' = [primary EXCEPT !.running = FALSE]
          /\ UNCHANGED bhist
     ELSE /\ bot' = [bot EXCEPT !.seen_entries = {}]
          /\ clr' = [clr EXCEPT !.pc = "c_sleep"]
          /\ primary' = [primary EXCEPT !.running = TRUE]
          /\ bhist' = [bhist EXCEPT !.dispatched = <<>>]
  /\ UNCHANGED mon
  /\ BridgeUnchanged

\* lines 136-148: asyncio.sleep(3) returns, the entries of the log are marked
\* as seen, the flag is reset
ClearMark ==
  /\ clr.pc = "c_sleep"
  /\ bot' = [seen_entries |-> bot.seen_entries \cup Hashes(get_activity(ClearLastN)),
             clearing |-> FALSE]
  /\ clr' = [clr EXCEPT !.pc = "c_done"]
  /\ UNCHANGED <<primary, mon, bhist>>
  /\ BridgeUnchanged

\* lines 152-163: the awaits of the closing notice, of either outcome
ClearEnd ==
  /\ clr.pc \in {"c_done", "c_failed"}
  /\ bot' = [bot EXCEPT !.clearing = FALSE]
  /\ clr' = [clr EXCEPT !.pc = "idle"]
  /\ UNCHANGED <<primary, mon, bhist>>
  /\ BridgeUnchanged

\* the steps of a handler that has begun
ClearRun ==
  \/ \E notified, started \in BOOLEAN : ClearRestart(notified, started)
  \/ ClearMark
  \/ ClearEnd

ClearStep == ClearBegin \/ ClearRun

NextBridge == AgentAppends \/ OnReady \/ MonitorStep \/ ClearStep

SpecBridge == InitBridge /\ [][NextBridge]_vars

\* the event loop runs every task that is ready: a timer fires, an await of a
\* send returns; nobody has to type /clear
SpecBridgeFair ==
  SpecBridge /\ WF_vars(OnReady) /\ WF_vars(MonitorStep) /\ WF_vars(ClearRun)


-----------------------------------------------------------------------------
(* C33 *)

\* line n of the primary's log was written after the monitor initialised its
\* seen set
AppendedSinceInit(n) ==
  /\ mon.pc # "not_started"
  /\ n > bhist.init_len
  /\ n <= Len(primary.log)

\* line n of the log has reached the activity channel
Delivered(n) == n <= Len(primary.log) /\ primary.log[n] \in bhist.delivered

\* C33: every entry appended to the primary's log after the monitor
\* initialised its seen set is eventually in the activity channel, unless the
\* primary stops running or a /clear starts it anew; however many entries
\* arrive between two polls, and whether or not a send fails
C33_AtLeastOnce ==
  \A n \in 1..MaxBridgeLog :
    AppendedSinceInit(n) ~>
      \/ Delivered(n)
      \/ ~primary.running
      \/ clr.clears > 0

-----------------------------------------------------------------------------
(* C34 *)

\* C34: between two resets of the seen set no entry is dispatched more than
\* once, and no two distinct entries of the log have the same dedup key
C34_MonitorDedup ==
  /\ \A i, j \in DOMAIN bhist.dispatched :
       bhist.dispatched[i] = bhist.dispatched[j] => i = j
  /\ \A i, j \in DOMAIN primary.log :
       primary.log[i] # primary.log[j] =>
         hash_entry(primary.log[i]) # hash_entry(primary.log[j])

-----------------------------------------------------------------------------
(* C36 *)

\* C36: while the clearing flag is set, no step of the monitor dispatches an
\* entry or adds to the seen set; the flag is reset when the handler has
\* ended, on its success and on its failure path
C36_ClearPausesMonitor ==
  /\ [][(bot.clearing /\ mon' # mon) =>
          /\ bhist'.dispatched = bhist.dispatched
          /\ bot'.seen_entries = bot.seen_entries]_vars
  /\ [](clr.pc \in {"idle", "c_done", "c_failed"} => ~bot.clearing)

====
